---- MODULE Spec2Model ----
(***************************************************************************)
(* Model of the Helabet relay: the HelabetSession class (cookie jar,        *)
(* warm-up sequencer, authenticated request executor), the server's        *)
(* resolveVideoStream (resolve cache and circuit breaker) and                *)
(* fetchMatchesWithVideo (league breaker), the resolve route (cache,        *)
(* in-flight map, attempts), the aggregator (dedupe, fetchAndNormalize,     *)
(* getMatches), mapStreamMatch, the player page script, and the marketing   *)
(* client with its token fetches.                                           *)
(*                                                                          *)
(* Execution model: one Node.js event loop.  Every action below is one      *)
(* macrotask (an incoming call, or the settling of one upstream fetch /     *)
(* body read) together with the synchronous code and the continuation that  *)
(* runs up to the next await.  The continuations of the callers that await  *)
(* the shared warm-up promise are separate actions (Resume...), which run   *)
(* before any further macrotask (MicrotaskPending).                         *)
(***************************************************************************)
EXTENDS Integers, FiniteSets, Sequences, TLC

(***************************************************************************)
(* Bounds of the model.                                                     *)
(***************************************************************************)
NumCallers == 2
MaxRuns == 2
MaxEpoch == 1

(***************************************************************************)
(* Program constants.                                                       *)
(***************************************************************************)
\* Mutant: a reuse window of one minute.
ReuseWindowOneMinute == 1 * 60 * 1000

WARMUP_REUSE_WINDOW_MS == 10 * 60 * 1000

RETRYABLE_STATUSES == {401, 403, 406}

Callers == 1..NumCallers

\* The callers that call helabetRequest (the proxy route's handlers): at most
\* two requests overlap.  Every caller may call warmUp directly (as the server
\* does at boot).
Requesters == {c \in Callers : c <= 2}
RunIds == 1..MaxRuns

\* The instants Date.now() takes in the model: around the multiples of the
\* reuse window, so that ages just under, at and over the window all occur.
Instants ==
  {k * 600000 + j : k \in 0..MaxEpoch, j \in {0, 1}} \ {0}

CookieNames == {"SESSION", "lng"}
Absent == "<absent>"

\* Response statuses the upstream answers with.
StatusChoices == {200, 401, 403, 406, 500}

\* One parsed Set-Cookie (set-cookie-parser's Cookie): value, Max-Age, Expires.
Ck(n, v, hasMaxAge, maxAge, hasExpires, expires) ==
  [name |-> n, value |-> v, hasMaxAge |-> hasMaxAge, maxAge |-> maxAge,
   hasExpires |-> hasExpires, expires |-> expires]

\* The Set-Cookie headers a response may carry (parsed with {map: true}: one
\* cookie per name).
SetCookieChoices ==
  { {},
    {Ck("SESSION", "v1", FALSE, 0, FALSE, 0)},
    {Ck("SESSION", "v2", TRUE, 600, FALSE, 0)},
    {Ck("SESSION", "", TRUE, 0, FALSE, 0)},
    {Ck("lng", "en", FALSE, 0, FALSE, 0)} }

VARIABLES
  now,            \* Date.now()
  cookieJar,      \* HelabetSession.cookieJar: name -> value (Absent: no entry)
  cookieMeta,     \* HelabetSession.cookieMeta: name -> expiresAt (0: null)
  lastWarmup,     \* HelabetSession.lastWarmup
  warmupPromise,  \* HelabetSession.warmupPromise: 0 (null) or the run it wraps
  runPc,          \* position of each warm-up sequence (the async `run`)
  runHdr,         \* the cookie header of each run's outstanding step request
  runNon2xx,      \* history: the run received a non-2xx step response
  pc,             \* position of each caller
  call,           \* each caller's locals and history of its current call
  lastSetCookie,  \* history: what the latest Set-Cookie of each name asked for
  built,          \* history: the latest cookie header built, and when
  RESOLVE_CACHE,  \* videoId -> cached ResolveResult with its expiresAt
  RESOLVE_BREAKER,\* videoId -> {failures, blockedUntil}
  rpc,            \* position of each resolveVideoStream call
  rcall,          \* each resolveVideoStream call's locals and history
  cache,          \* resolve route: cache key -> {value, expiresAt}
  inflight,       \* resolve route: cache key -> 0 or the promise in flight
  cooldowns,      \* resolve route: cache key -> time of the last resolve start
  chain,          \* resolve route: each promise made by getInflight
  handler,        \* resolve route: each request of resolveHandler
  LEAGUE_BREAKER, \* leagueId -> {failures, blockedUntil}
  lcall,          \* each fetchMatchesWithVideo call's locals and history
  rawUrl,         \* the argument of deriveTtlFromUrl
  derived,        \* what deriveTtlFromUrl returned, and when
  items,          \* the argument of dedupe
  deduped,        \* what dedupe returned
  helabetStreams, \* fetchAndNormalize: the converted Helabet matches
  aggregation,    \* what fetchAndNormalize returned
  rawMatch,       \* the argument of mapStreamMatch
  streamMatch,    \* what mapStreamMatch returned
  player,         \* the player page script: its variables and timers
  aggregator,     \* LiveAggregator: cache, inflight, fetches and calls
  marketing       \* MarketingAuth and the MarketingClient requests

vars == <<now, cookieJar, cookieMeta, lastWarmup, warmupPromise, runPc,
          runHdr, runNon2xx, pc, call, lastSetCookie, built,
          RESOLVE_CACHE, RESOLVE_BREAKER, rpc, rcall,
          cache, inflight, cooldowns, chain, handler,
          LEAGUE_BREAKER, lcall, rawUrl, derived, items, deduped,
          helabetStreams, aggregation, rawMatch, streamMatch,
          player, aggregator, marketing>>

\* The history of the cookie jar's operations.
jarHistory == <<lastSetCookie, built>>

\* The state of resolveVideoStream.
resolveVars == <<RESOLVE_CACHE, RESOLVE_BREAKER, rpc, rcall>>

\* The state of the resolve route (makeResolveHandler).
routeVars == <<cache, inflight, cooldowns, chain, handler>>

\* The state of fetchMatchesWithVideo.
leagueVars == <<LEAGUE_BREAKER, lcall>>

\* Arguments and results of the pure functions deriveTtlFromUrl and dedupe.
functionVars == <<rawUrl, derived, items, deduped>>

\* The state of the route, the league fetch and the pure functions.
clientVars == <<helabetStreams, aggregation, rawMatch, streamMatch,
                player, aggregator, marketing>>
relayVars == <<routeVars, leagueVars, functionVars, clientVars>>

\* The state of HelabetSession's callers and warm-up sequences.
sessionCalls == <<lastWarmup, warmupPromise, runPc, runHdr, runNon2xx, pc, call>>

EmptyHeader == [n \in CookieNames |-> Absent]

\* Locals of a call: kind ("request" or "warmUp"), flag (retryOnAuth or force),
\* awaiting (the run whose promise it awaits), outcome (how that promise
\* settled), hdr (the cookie of its Headers object), status1/status2 (the
\* statuses of its responses), ret/retStatus (what it returns).
\* History of a call: sends (attemptFetch calls), warmups (warmUp calls it
\* awaited a run of), emptyAtStart (jar empty at call), retryFresh (the retry
\* carried the cookie header of the jar at retry time), forcedFailed (its forced
\* warm-up failed), netErr (the attempt that raised a network exception).
NoCall ==
  [kind |-> "none", flag |-> FALSE, awaiting |-> 0, outcome |-> "none",
   hdr |-> EmptyHeader, status1 |-> 0, status2 |-> 0,
   ret |-> "none", retStatus |-> 0,
   sends |-> 0, warmups |-> 0, emptyAtStart |-> FALSE, retryFresh |-> TRUE,
   forcedFailed |-> FALSE, netErr |-> 0]

\* The session's mutable fields as one record, so that the steps of a handler
\* compose in program order.
Session ==
  [jar |-> cookieJar, meta |-> cookieMeta, last |-> lastWarmup,
   wp |-> warmupPromise, run |-> runPc, hdr |-> runHdr]

JarSize(jar) == Cardinality({n \in CookieNames : jar[n] # Absent})

\* String.prototype.trim on the cookie values of the model.
Trim(v) == IF v = " " THEN "" ELSE v

\* Response.ok
Ok(status) == status >= 200 /\ status <= 299

(***************************************************************************)
(* Cookie jar.                                                              *)
(***************************************************************************)

\* Mutant: an entry expires only after its expiry time.
BuildCookieHeaderLate(s, t) ==
  LET expired(n) == s.jar[n] # Absent /\ s.meta[n] # 0 /\ s.meta[n] < t
      jar2 == [n \in CookieNames |-> IF expired(n) THEN Absent ELSE s.jar[n]]
      meta2 == [n \in CookieNames |-> IF expired(n) THEN 0 ELSE s.meta[n]]
  IN [header |-> jar2, s |-> [s EXCEPT !.jar = jar2, !.meta = meta2]]

\* buildCookieHeader at time t: the pairs of the entries that are not expired;
\* the expired entries are evicted from jar and meta.  The header is the map
\* name -> value of the pairs it lists ("" when every name is Absent).
BuildCookieHeader(s, t) ==
  LET expired(n) == s.jar[n] # Absent /\ s.meta[n] # 0 /\ s.meta[n] <= t
      jar2 == [n \in CookieNames |-> IF expired(n) THEN Absent ELSE s.jar[n]]
      meta2 == [n \in CookieNames |-> IF expired(n) THEN 0 ELSE s.meta[n]]
  IN [header |-> jar2, s |-> [s EXCEPT !.jar = jar2, !.meta = meta2]]

\* resolveCookieExpiry: Max-Age wins over Expires; 0 stands for null.
ResolveCookieExpiry(details, t) ==
  IF details.hasMaxAge THEN t + details.maxAge * 1000
  ELSE IF details.hasExpires THEN details.expires
  ELSE 0

\* Mutant: a name that has an entry keeps it when a new value arrives.
UpdateFromSetCookieFirstWins(s, parsed, t) ==
  LET has(n) == \E d \in parsed : d.name = n
      det(n) == CHOOSE d \in parsed : d.name = n
      value(n) == Trim(det(n).value)
      expiresAt(n) == ResolveCookieExpiry(det(n), t)
      drop(n) == \/ value(n) = ""
                 \/ (det(n).hasMaxAge /\ det(n).maxAge = 0)
                 \/ (expiresAt(n) # 0 /\ expiresAt(n) <= t)
      keep(n) == ~has(n) \/ (~drop(n) /\ s.jar[n] # Absent)
  IN [s EXCEPT
        !.jar = [n \in CookieNames |->
                   IF keep(n) THEN s.jar[n]
                   ELSE IF drop(n) THEN Absent ELSE value(n)],
        !.meta = [n \in CookieNames |->
                   IF keep(n) THEN s.meta[n]
                   ELSE IF drop(n) THEN 0 ELSE expiresAt(n)]]

\* updateFromSetCookie: `parsed` holds at most one cookie per name.
UpdateFromSetCookie(s, parsed, t) ==
  LET has(n) == \E d \in parsed : d.name = n
      det(n) == CHOOSE d \in parsed : d.name = n
      value(n) == Trim(det(n).value)
      expiresAt(n) == ResolveCookieExpiry(det(n), t)
      drop(n) == \/ value(n) = ""
                 \/ (det(n).hasMaxAge /\ det(n).maxAge = 0)
                 \/ (expiresAt(n) # 0 /\ expiresAt(n) <= t)
  IN [s EXCEPT
        !.jar = [n \in CookieNames |->
                   IF ~has(n) THEN s.jar[n]
                   ELSE IF drop(n) THEN Absent ELSE value(n)],
        !.meta = [n \in CookieNames |->
                   IF ~has(n) THEN s.meta[n]
                   ELSE IF drop(n) THEN 0 ELSE expiresAt(n)]]

(***************************************************************************)
(* Warm-up sequencer.                                                       *)
(***************************************************************************)

\* performWarmUpStep up to its fetch: the cookie header is built (evicting
\* expired entries) and the GET of `step` is issued by run r.
PerformWarmUpStep(s, r, step, t) ==
  LET b == BuildCookieHeader(s, t)
  IN [b.s EXCEPT !.run[r] = step, !.hdr[r] = b.header]

\* Mutant: the reuse-window test without the jar-size condition.
ReuseWindowHitAnyJar(s, force, t) ==
  /\ ~force
  /\ s.last # 0
  /\ t - s.last < WARMUP_REUSE_WINDOW_MS

\* The reuse-window test that opens warmUp.
ReuseWindowHit(s, force, t) ==
  /\ ~force
  /\ JarSize(s.jar) > 0
  /\ s.last # 0
  /\ t - s.last < WARMUP_REUSE_WINDOW_MS

\* Mutant: warmUp without the in-flight test.
JoinsInFlightNever(s) == FALSE

\* The in-flight test of warmUp: a caller joins the shared promise.
JoinsInFlight(s) == s.wp # 0

FreeRuns(s) == {r \in RunIds : s.run[r] = "unused"}

\* warmUp(force) up to its first await.  how: "noop" (returned at once),
\* "join" (returned the shared promise), "start" (a new run was started and
\* its first GET issued), "none" (no run slot left in the model).
WarmUp(s, force, t) ==
  IF ReuseWindowHit(s, force, t) THEN [how |-> "noop", run |-> 0, s |-> s]
  ELSE IF JoinsInFlight(s) THEN [how |-> "join", run |-> s.wp, s |-> s]
  ELSE IF FreeRuns(s) = {} THEN [how |-> "none", run |-> 0, s |-> s]
  ELSE LET r == CHOOSE x \in FreeRuns(s) : \A y \in FreeRuns(s) : x <= y
       IN [how |-> "start", run |-> r,
           s |-> [PerformWarmUpStep(s, r, "html", t) EXCEPT !.wp = r]]

\* Mutant: the promise is cleared with then(), on success only.
PromiseAfterSettleOnSuccessOnly(wp, outcome) ==
  IF outcome = "ok" THEN 0 ELSE wp

\* What the callback attached to `run` does to warmupPromise when the run
\* settles with `outcome` ("ok" or "failed"): finally() clears it either way.
PromiseAfterSettle(wp, outcome) == 0

\* Run r settles: the run is over and the promise callback has run.
SettleRun(s, r, outcome) ==
  [s EXCEPT !.run[r] = "unused", !.hdr[r] = EmptyHeader,
            !.wp = PromiseAfterSettle(s.wp, outcome)]

AwaitPcs == {"awaitOpp", "awaitForced", "awaitDirect"}
ResumePcs == {"resumeOpp", "resumeForced", "resumeDirect"}

ResumeOf(p) ==
  CASE p = "awaitOpp" -> "resumeOpp"
    [] p = "awaitForced" -> "resumeForced"
    [] p = "awaitDirect" -> "resumeDirect"

\* The continuations of the callers awaiting the shared promise are queued
\* when it settles.
MicrotaskPending == \E c \in Callers : pc[c] \in ResumePcs

\* Writes the session record back to the variables.
Commit(s) ==
  /\ cookieJar' = s.jar
  /\ cookieMeta' = s.meta
  /\ lastWarmup' = s.last
  /\ warmupPromise' = s.wp
  /\ runPc' = s.run
  /\ runHdr' = s.hdr

\* Callers waiting on run r get its outcome.
WakeWaiters(r, outcome, pcs, calls) ==
  [pcs2 |-> [c \in Callers |->
               IF pcs[c] \in AwaitPcs /\ calls[c].awaiting = r
               THEN ResumeOf(pcs[c]) ELSE pcs[c]],
   calls2 |-> [c \in Callers |->
               IF pcs[c] \in AwaitPcs /\ calls[c].awaiting = r
               THEN [calls[c] EXCEPT !.outcome = outcome, !.awaiting = 0]
               ELSE calls[c]]]

\* A caller's record and position right after it called warmUp: it awaits the
\* promise warmUp returned (an immediate return resumes in the next microtask).
AfterWarmUpCall(cr, w, awaitPc) ==
  [pc |-> IF w.how = "noop" THEN ResumeOf(awaitPc) ELSE awaitPc,
   cr |-> [cr EXCEPT !.awaiting = w.run,
                     !.outcome = IF w.how = "noop" THEN "ok" ELSE "none",
                     !.warmups = @ + (IF w.how = "noop" THEN 0 ELSE 1)]]

\* Mutant: the SPA step always follows the first step.
NextWarmUpStepAlwaysSpa(step, s) ==
  CASE step = "html" -> "spa"
    [] step = "spa" -> "cfg"
    [] step = "cfg" -> "finish"

\* The step that follows `step` in the async `run` of warmUp, decided when the
\* body of `step` has been read: the SPA step only without a SESSION cookie.
NextWarmUpStep(step, s) ==
  CASE step = "html" -> IF s.jar["SESSION"] = Absent THEN "spa" ELSE "cfg"
    [] step = "spa" -> "cfg"
    [] step = "cfg" -> "finish"

\* Mutant: only a 5xx step response throws.
StepThrowsOnServerErrorOnly(status) == status >= 500

\* performWarmUpStep after its fetch: a response that is not ok throws.
StepThrows(status) == ~Ok(status)

FetchSteps == {"html", "spa", "cfg"}
BodySteps == {"htmlBody", "spaBody", "cfgBody"}

BodyOf(step) ==
  CASE step = "html" -> "htmlBody"
    [] step = "spa" -> "spaBody"
    [] step = "cfg" -> "cfgBody"

StepOf(body) ==
  CASE body = "htmlBody" -> "html"
    [] body = "spaBody" -> "spa"
    [] body = "cfgBody" -> "cfg"

\* The run r ends with `outcome`: the promise callback runs and the awaiting
\* callers are woken.
Settle(s, r, outcome) ==
  LET w == WakeWaiters(r, outcome, pc, call)
  IN /\ Commit(SettleRun(s, r, outcome))
     /\ pc' = w.pcs2
     /\ call' = w.calls2
     /\ runNon2xx' = [runNon2xx EXCEPT ![r] = FALSE]

(***************************************************************************)
(* Authenticated request executor.                                          *)
(***************************************************************************)

\* Mutant: the retry ignores the retryOnAuth option.
ShouldRetryIgnoringOption(retryOnAuth, status) ==
  status \in RETRYABLE_STATUSES

\* executeRequest: retry after the first response?
ShouldRetry(retryOnAuth, status) ==
  retryOnAuth /\ status \in RETRYABLE_STATUSES

\* Mutant: helabetRequest without the try/catch around warmUp.
AfterOppWarmUpRethrows(outcome) ==
  IF outcome = "failed" THEN "throw" ELSE "proceed"

\* helabetRequest after its opportunistic warmUp settled: the catch swallows a
\* failure and executeRequest is called either way.
AfterOppWarmUp(outcome) == "proceed"

\* Mutant: the forced warmUp outside the try block.
AfterForcedWarmUpRethrows(outcome) ==
  IF outcome = "ok" THEN "retry" ELSE "throw"

\* executeRequest after the forced warmUp settled: a failure lands in the catch,
\* which returns the original response.
AfterForcedWarmUp(outcome) ==
  IF outcome = "ok" THEN "retry" ELSE "returnOriginal"

\* Mutant: the second attemptFetch outside the try block.
AfterRetryErrorRethrows == "throw"

\* executeRequest when the second attemptFetch rejects: the same catch.
AfterRetryError == "returnOriginal"

\* The cookie header of the second attemptFetch: the closure sends the Headers
\* object built before the first attempt.
RetryCookieHeader(cr, s, t) == cr.hdr

\* executeRequest up to its first await: headers are built and the first
\* attemptFetch is issued.
ExecuteRequestStart(cr, s, t) ==
  LET b == BuildCookieHeader(s, t)
  IN [cr |-> [cr EXCEPT !.hdr = b.header, !.sends = 1], s |-> b.s]

(***************************************************************************)
(* Set-Cookie headers as the upstream sends them.                           *)
(***************************************************************************)

\* The Set-Cookie headers one response may repeat: session cookies, Max-Age,
\* Max-Age=0 with a value, an empty and a blank value, an Expires date.
JarCookies ==
  { Ck("SESSION", "v1", FALSE, 0, FALSE, 0),
    Ck("SESSION", "v2", TRUE, 600, FALSE, 0),
    Ck("SESSION", "v1", TRUE, 0, FALSE, 0),
    Ck("SESSION", "", FALSE, 0, FALSE, 0),
    Ck("SESSION", " ", FALSE, 0, FALSE, 0),
    Ck("SESSION", "v2", FALSE, 0, TRUE, 600000),
    Ck("SESSION", "v1", FALSE, 0, TRUE, 1),
    Ck("lng", "en", TRUE, 600, FALSE, 0) }

\* response.headers.getSetCookie(): up to two Set-Cookie headers, in order.
RawSetCookieChoices ==
  {<<>>} \cup {<<d>> : d \in JarCookies}
         \cup {<<d, e>> : d \in JarCookies, e \in JarCookies}

\* The last header of `raw` that names n (0: none).
LastNamed(raw, n) ==
  LET is == {i \in DOMAIN raw : raw[i].name = n}
  IN IF is = {} THEN 0 ELSE CHOOSE i \in is : \A j \in is : j <= i

\* setCookie.parse(raw, {map: true}): an object keyed by name, in which a later
\* header of a name replaces an earlier one.
ParseSetCookie(raw) ==
  {raw[i] : i \in {j \in DOMAIN raw : LastNamed(raw, raw[j].name) = j}}

(***************************************************************************)
(* resolveVideoStream: resolve cache and circuit breaker.                   *)
(***************************************************************************)

\* Video identifiers, as the sequences of their characters.
DemoVideo == <<"d", "e", "m", "o", "-", "1">>
PlainVideo == <<"v", "i", "d", "-", "1">>
VideoIds == {DemoVideo, PlainVideo}

DEMO_STREAM_PREFIX == <<"d", "e", "m", "o", "-">>
DEMO_STREAM_URL == "demo-stream"

\* The URL field of the upstream's answer ("": missing or not a string).
UpstreamUrls == {"", "u1", "u2"}

\* Mutant: only the prefix itself matches.
StartsWithWhole(str, prefix) == str = prefix

\* String.prototype.startsWith
StartsWith(str, prefix) ==
  /\ Len(str) >= Len(prefix)
  /\ SubSeq(str, 1, Len(prefix)) = prefix

\* RESOLVE_TTL_HINT (seconds) and SERVER_TIMEOUT_MS of DEFAULT_ENV.
RESOLVE_TTL_HINT == 90
SERVER_TIMEOUT_MS == 5000

\* The ttlHintSec of the demo stream.
DemoTtlSec == 300

\* The longest delay between the two attempts of requestHelabet (150..300 ms).
RetryDelayMaxMs == 300

NoEntry == [url |-> "", ttlHintSec |-> 0, expiresAt |-> 0]
NoBreaker == [failures |-> 0, blockedUntil |-> 0]

\* cached && cached.expiresAt > now
CacheLive(entry, t) == entry # NoEntry /\ entry.expiresAt > t

\* Mutant: the breaker opens with the third failure only.
BreakerBlocksFromThirdFailure(breaker, t) ==
  breaker # NoBreaker /\ breaker.failures >= 3 /\ breaker.blockedUntil > t

\* breaker && breaker.blockedUntil > now
BreakerBlocks(breaker, t) == breaker # NoBreaker /\ breaker.blockedUntil > t

Min(a, b) == IF a <= b THEN a ELSE b

\* Mutant: the block doubles without a ceiling.
BackoffMsUncapped(failures) == 1000 * 2 ^ failures

\* Math.min(30_000, 1000 * 2 ** Math.min(failures, 5))
BackoffMs(failures) == Min(30000, 1000 * 2 ^ Min(failures, 5))

\* Mutant: a success keeps the failure count and only lifts the block.
BreakerAfterSuccessKeepsCount(breaker) ==
  IF breaker = NoBreaker THEN NoBreaker ELSE [breaker EXCEPT !.blockedUntil = 0]

\* RESOLVE_BREAKER.delete(videoId) on success.
BreakerAfterSuccess(breaker) == NoBreaker

\* The catch block: the entry is rebuilt from the breaker read, and the `now`
\* taken, before the upstream call.
BreakerAfterFailure(failuresRead, startedAt) ==
  [failures |-> failuresRead + 1,
   blockedUntil |-> startedAt + BackoffMs(failuresRead + 1)]

\* The entry a success stores: it expires ttlHint seconds after the `now`
\* taken before the upstream call.
EntryAfterSuccess(url, startedAt) ==
  [url |-> url, ttlHintSec |-> RESOLVE_TTL_HINT,
   expiresAt |-> startedAt + RESOLVE_TTL_HINT * 1000]

\* The entry every resolve of a demo identifier stores.
DemoEntry(t) ==
  [url |-> DEMO_STREAM_URL, ttlHintSec |-> DemoTtlSec,
   expiresAt |-> t + DemoTtlSec * 1000]

\* Locals of a resolveVideoStream call: videoId, startedAt (its `now`),
\* failuresRead (breaker?.failures ?? 0 of the breaker it read), ret ("result"
\* or "error"), url/ttlHintSec (the result), error (the message thrown).
\* History: sends (fetch calls), fromCache (answered by the live cache entry).
NoResolve ==
  [videoId |-> <<>>, startedAt |-> 0, failuresRead |-> 0, ret |-> "none",
   url |-> "", ttlHintSec |-> 0, error |-> "", sends |-> 0,
   fromCache |-> FALSE]

\* The calls of resolveVideoStream that may overlap.
Resolvers == {c \in Callers : c <= 2}

\* A call whose upstream request is outstanding, or which waits to retry it.
ResolveInFlight(c) == rpc[c] \in {"fetch1", "delay", "fetch2"}

\* The abort timer of requestHelabet fires SERVER_TIMEOUT_MS after the call
\* and ends both attempts: no call is in flight longer than that and one
\* retry delay.
NoDeadlineBefore(t) ==
  \A c \in Callers :
    /\ ResolveInFlight(c) =>
         t - rcall[c].startedAt <= SERVER_TIMEOUT_MS + RetryDelayMaxMs
    /\ lcall[c].pc = "fetch" =>
         t - lcall[c].startedAt <= SERVER_TIMEOUT_MS + RetryDelayMaxMs

(***************************************************************************)
(* The resolve route (POST /api/resolve): deriveTtlFromUrl, the route's     *)
(* cache, and the in-flight map of getInflight.                             *)
(***************************************************************************)
DEFAULT_TTL_SEC == 300
TTL_MIN_SEC == 30

\* The safety margin deriveTtlFromUrl subtracts from the token (30_000 ms).
TokenMarginMs == 30000

\* marginMs and the floor of the short-TTL branch of storeCache.
StoreMarginMs == 5000
StoreMinMs == 3000

\* The cool-down between two resolves of one key (getInflight, 1_000 ms).
CooldownMs == 1000

Max(a, b) == IF a >= b THEN a ELSE b

NoString == <<>>
Sgi1 == <<"s", "1">>

Digits == {"0", "1", "2", "3", "4", "5", "6", "7", "8", "9"}

DigitValue(ch) ==
  CASE ch = "0" -> 0 [] ch = "1" -> 1 [] ch = "2" -> 2 [] ch = "3" -> 3
    [] ch = "4" -> 4 [] ch = "5" -> 5 [] ch = "6" -> 6 [] ch = "7" -> 7
    [] ch = "8" -> 8 [] ch = "9" -> 9

RECURSIVE SkipSpaces(_)
SkipSpaces(str) ==
  IF str # <<>> /\ Head(str) = " " THEN SkipSpaces(Tail(str)) ELSE str

RECURSIVE ReadDigits(_, _)
ReadDigits(str, acc) ==
  IF str # <<>> /\ Head(str) \in Digits
  THEN ReadDigits(Tail(str), acc * 10 + DigitValue(Head(str)))
  ELSE acc

\* Number.parseInt(token, 10): leading white space, an optional sign, then
\* the longest prefix of digits; NaN when no digit follows.
ParseInt(str) ==
  LET body == SkipSpaces(str)
      signed == body # <<>> /\ Head(body) \in {"-", "+"}
      digits == IF signed THEN Tail(body) ELSE body
  IN IF digits = <<>> \/ Head(digits) \notin Digits
     THEN [nan |-> TRUE, value |-> 0]
     ELSE [nan |-> FALSE,
           value |-> IF signed /\ Head(body) = "-"
                     THEN 0 - ReadDigits(digits, 0)
                     ELSE ReadDigits(digits, 0)]

\* A number | null result.
Null == [null |-> TRUE, value |-> 0]
Some(n) == [null |-> FALSE, value |-> n]

\* A URL string: href ("" is the empty string), whether `new URL` accepts it
\* (an absolute URL), and the value of its `t` query parameter (<<>>: none).
Url(href, absolute, t) == [href |-> href, absolute |-> absolute, t |-> t]
NoUrl == Url("", FALSE, <<>>)

\* Mutant: the minimum is not applied.
DeriveTtlFromUrlNoFloor(u, t) ==
  IF u.href = "" \/ ~u.absolute \/ u.t = <<>> \/ ParseInt(u.t).nan
  THEN Null
  ELSE Some(Max(0, ParseInt(u.t).value - t - TokenMarginMs) \div 1000)

DeriveTtlFromUrl(u, t) ==
  IF u.href = "" THEN Null
  ELSE IF ~u.absolute THEN Null
  ELSE IF u.t = <<>> THEN Null
  ELSE LET expiryMs == ParseInt(u.t)
       IN IF expiryMs.nan THEN Null
          ELSE LET remainingMs == Max(0, expiryMs.value - t - TokenMarginMs)
                   remainingSec == remainingMs \div 1000
               IN Some(Max(TTL_MIN_SEC, remainingSec))

\* normalizeTtl on a number (0 stands for a missing or non-numeric value).
NormalizeTtl(value) == IF value > 0 THEN value ELSE DEFAULT_TTL_SEC

\* extractTtl on an upstream payload whose only TTL key is a number
\* (0: the payload has none).
ExtractTtl(payloadTtl) ==
  IF payloadTtl > 0 THEN NormalizeTtl(payloadTtl) ELSE DEFAULT_TTL_SEC

\* buildResolvePayload(url, ttlSource); hasSource: ttlSource !== undefined.
BuildResolvePayload(u, hasSource, payloadTtl, t) ==
  LET fallbackTtl == IF hasSource THEN ExtractTtl(payloadTtl)
                     ELSE DEFAULT_TTL_SEC
      fromUrl == DeriveTtlFromUrl(u, t)
      ttlHintSec == IF fromUrl.null THEN fallbackTtl ELSE fromUrl.value
  IN [url |-> u.href, ttlHintSec |-> NormalizeTtl(ttlHintSec)]

MakeCacheKey(videoId, sgi) == videoId \o <<":", ":">> \o sgi

NoPayload == [url |-> "", ttlHintSec |-> 0]
NoCacheEntry == [value |-> NoPayload, expiresAt |-> 0]

\* getCached: the payload served (hit), and the cache after the call (an
\* expired entry is deleted).
GetCached(c, cacheKey, t) ==
  LET entry == c[cacheKey]
      remainingMs == entry.expiresAt - t
  IN IF entry = NoCacheEntry
     THEN [hit |-> FALSE, payload |-> NoPayload, cache |-> c]
     ELSE IF remainingMs > 0
     THEN [hit |-> TRUE,
           payload |-> [url |-> entry.value.url,
                        ttlHintSec |-> Max(1, remainingMs \div 1000)],
           cache |-> c]
     ELSE [hit |-> FALSE, payload |-> NoPayload,
           cache |-> [c EXCEPT ![cacheKey] = NoCacheEntry]]

\* The expiresAt storeCache computes.
StoreExpiresAt(ttlSec, t) ==
  LET expiresAtCandidate == t + ttlSec * 1000 - StoreMarginMs
  IN IF expiresAtCandidate > t
     THEN expiresAtCandidate
     ELSE t + Max(StoreMinMs, (ttlSec * 1000) \div 2)

StoreCache(c, cacheKey, payload, t) ==
  LET ttlSec == NormalizeTtl(payload.ttlHintSec)
  IN [c EXCEPT ![cacheKey] =
        [value |-> [url |-> payload.url, ttlHintSec |-> ttlSec],
         expiresAt |-> StoreExpiresAt(ttlSec, t)]]

\* The demo payload of executeResolve.
DemoPayload == [url |-> DEMO_STREAM_URL, ttlHintSec |-> 300]

\* AttemptResult.
Success(payload) == [kind |-> "success", status |-> 0, payload |-> payload]
Http(status) == [kind |-> "http", status |-> status, payload |-> NoPayload]
NoStream == [kind |-> "no_stream", status |-> 0, payload |-> NoPayload]
Network == [kind |-> "network", status |-> 0, payload |-> NoPayload]

\* What the upstream does with one request of an attempt: answers 2xx with a
\* stream URL (and a payload TTL), answers 2xx without a stream, answers with
\* a non-2xx status, or the request fails (helabetRequest or text() throws).
Stream(u, payloadTtl) ==
  [kind |-> "stream", status |-> 200, url |-> u, ttl |-> payloadTtl]
Empty == [kind |-> "empty", status |-> 200, url |-> NoUrl, ttl |-> 0]
Status(s) == [kind |-> "status", status |-> s, url |-> NoUrl, ttl |-> 0]
Failure == [kind |-> "failure", status |-> 0, url |-> NoUrl, ttl |-> 0]

\* attemptBffResolve / attemptCinemaResolve on the upstream's answer.
AttemptResult(ans, t) ==
  CASE ans.kind = "status" -> Http(ans.status)
    [] ans.kind = "stream" ->
         Success(BuildResolvePayload(ans.url, TRUE, ans.ttl, t))
    [] ans.kind = "empty" -> NoStream
    [] ans.kind = "failure" -> Network

\* The end of attemptHtmlResolve when no path gave a stream.
HtmlResult(httpErrors) ==
  IF Len(httpErrors) > 0 THEN Http(httpErrors[Len(httpErrors)]) ELSE NoStream

NoError == [message |-> "", statusCode |-> 0, upstreamStatus |-> 0]

\* The error executeResolve throws after its attempts.
ResolveError(attempts) ==
  LET httpFailures == SelectSeq(attempts, LAMBDA a : a.kind = "http")
      n == Len(httpFailures)
  IN IF n > 0 /\ \A i \in 1..n : httpFailures[i].status >= 400
                                  /\ httpFailures[i].status < 500
     THEN [message |-> "not_found", statusCode |-> 404, upstreamStatus |-> 0]
     ELSE IF \E i \in 1..n : httpFailures[i].status >= 500
     THEN [message |-> "upstream_error", statusCode |-> 502,
           upstreamStatus |-> httpFailures[n].status]
     ELSE [message |-> "resolve_failed", statusCode |-> 503,
           upstreamStatus |-> 0]

\* The status resolveHandler answers an error with.
SendStatus(error) ==
  IF error.statusCode \in {404, 502, 400} THEN error.statusCode ELSE 503

\* The requests of the route: {videoId, sgi} after trimming.
Request(videoId, sgi) == [videoId |-> videoId, sgi |-> sgi]

ResolveRequests ==
  {Request(PlainVideo, NoString), Request(DemoVideo, NoString),
   Request(PlainVideo, Sgi1), Request(DemoVideo, Sgi1),
   Request(NoString, Sgi1), Request(NoString, NoString)}

RouteKeys == {MakeCacheKey(q.videoId, q.sgi) : q \in ResolveRequests}

\* The requests in flight at once in the route.
Handlers == 1..(NumCallers + 1)

\* A promise made by getInflight (the async function it starts): position,
\* the arguments of executeResolve, the time its cool-down timer is set for,
\* the paths attemptHtmlResolve has left, `attempts`, `httpErrors`, and how
\* it settled.  History: answers (every answer the upstream gave it).
NoChain ==
  [pc |-> "none", videoId |-> NoString, sgi |-> NoString, key |-> NoString,
   wakeAt |-> 0, paths |-> <<>>, attempts |-> <<>>, httpErrors |-> <<>>,
   payload |-> NoPayload, error |-> NoError, answers |-> <<>>]

\* A request of resolveHandler: position, its cache key, the promise it
\* awaits, and its response.  History: videoId, fromCache, joined (it was
\* given a promise that was already in the in-flight map).
NoHandler ==
  [pc |-> "idle", videoId |-> NoString, key |-> NoString, awaits |-> 0,
   status |-> 0, payload |-> NoPayload, fromCache |-> FALSE,
   joined |-> FALSE]

Route ==
  [cache |-> cache, inflight |-> inflight, cooldowns |-> cooldowns,
   chain |-> chain, handler |-> handler]

CommitRoute(R) ==
  /\ cache' = R.cache
  /\ inflight' = R.inflight
  /\ cooldowns' = R.cooldowns
  /\ chain' = R.chain
  /\ handler' = R.handler

ChainRunning(ch) == chain[ch].pc \in {"cooldown", "bff", "cinema", "html"}

\* Mutant: the in-flight entry is deleted only when the resolve succeeded.
InflightAfterSettleOnSuccessOnly(map, cacheKey, succeeded) ==
  IF succeeded THEN [map EXCEPT ![cacheKey] = 0] ELSE map

\* finally { inflight.delete(cacheKey) }
InflightAfterSettle(map, cacheKey, succeeded) == [map EXCEPT ![cacheKey] = 0]

\* The promise settles: the finally block of getInflight runs, and the
\* handlers that await the promise answer their requests.
SettleResolved(R, ch, payload) ==
  [R EXCEPT
     !.chain[ch].pc = "resolved",
     !.chain[ch].payload = payload,
     !.inflight = InflightAfterSettle(R.inflight, R.chain[ch].key, TRUE),
     !.handler =
        [h \in Handlers |->
           IF R.handler[h].pc = "awaiting" /\ R.handler[h].awaits = ch
           THEN [R.handler[h] EXCEPT !.pc = "done", !.status = 200,
                                     !.payload = payload]
           ELSE R.handler[h]]]

SettleRejected(R, ch, error) ==
  [R EXCEPT
     !.chain[ch].pc = "rejected",
     !.chain[ch].error = error,
     !.inflight = InflightAfterSettle(R.inflight, R.chain[ch].key, FALSE),
     !.handler =
        [h \in Handlers |->
           IF R.handler[h].pc = "awaiting" /\ R.handler[h].awaits = ch
           THEN [R.handler[h] EXCEPT !.pc = "done",
                                     !.status = SendStatus(error)]
           ELSE R.handler[h]]]

\* The paths of attemptHtmlResolve.
HtmlPaths(videoId, sgi) ==
  (IF videoId # NoString THEN <<"vi">> ELSE <<>>)
    \o (IF sgi # NoString THEN <<"sgi">> ELSE <<>>)

\* executeResolve up to its first await.
ExecuteResolve(R, ch, t) ==
  LET c == R.chain[ch]
  IN IF StartsWith(c.videoId, DEMO_STREAM_PREFIX)
     THEN SettleResolved(
            [R EXCEPT !.cache = StoreCache(R.cache, c.key, DemoPayload, t)],
            ch, DemoPayload)
     ELSE IF c.videoId # NoString
     THEN [R EXCEPT !.chain[ch].pc = "bff"]
     ELSE [R EXCEPT !.chain[ch].pc = "html",
                    !.chain[ch].paths = HtmlPaths(c.videoId, c.sgi)]

\* executeResolve after an attempt returned `result`.
AfterAttempt(R, ch, result, t) ==
  LET c == R.chain[ch]
      attempts == Append(c.attempts, result)
      R1 == [R EXCEPT !.chain[ch].attempts = attempts]
  IN IF result.kind = "success"
     THEN SettleResolved(
            [R1 EXCEPT !.cache = StoreCache(R.cache, c.key, result.payload, t)],
            ch, result.payload)
     ELSE IF c.pc = "bff"
     THEN [R1 EXCEPT !.chain[ch].pc = "cinema"]
     ELSE IF c.pc = "cinema"
     THEN [R1 EXCEPT !.chain[ch].pc = "html",
                     !.chain[ch].paths = HtmlPaths(c.videoId, c.sgi)]
     ELSE SettleRejected(R1, ch, ResolveError(attempts))

\* attemptHtmlResolve after the upstream answered the request of one path.
AfterHtmlPath(R, ch, ans, t) ==
  LET c == R.chain[ch]
      httpErrors == IF ans.kind = "status"
                    THEN Append(c.httpErrors, ans.status)
                    ELSE c.httpErrors
      R1 == [R EXCEPT !.chain[ch].httpErrors = httpErrors,
                      !.chain[ch].paths = Tail(c.paths)]
  IN IF ans.kind = "stream"
     THEN AfterAttempt(R, ch,
            Success(BuildResolvePayload(ans.url, FALSE, 0, t)), t)
     ELSE IF Tail(c.paths) # <<>>
     THEN R1
     ELSE AfterAttempt(R1, ch, HtmlResult(httpErrors), t)

\* getInflight(session, cacheKey, videoId, sgi), called by handler h, and the
\* handler's `await` of the promise it returns.
GetInflight(R, h, cacheKey, videoId, sgi, t) ==
  IF R.inflight[cacheKey] # 0
  THEN [R EXCEPT !.handler[h].pc = "awaiting",
                 !.handler[h].awaits = R.inflight[cacheKey],
                 !.handler[h].joined = TRUE]
  ELSE LET last == R.cooldowns[cacheKey]
           R1 == [R EXCEPT
                    !.chain[h] = [NoChain EXCEPT !.videoId = videoId,
                                                 !.sgi = sgi,
                                                 !.key = cacheKey],
                    !.inflight[cacheKey] = h,
                    !.handler[h].pc = "awaiting",
                    !.handler[h].awaits = h]
       IN IF last # 0 /\ t - last < CooldownMs
          THEN [R1 EXCEPT !.chain[h].pc = "cooldown",
                          !.chain[h].wakeAt = t + (CooldownMs - (t - last))]
          ELSE ExecuteResolve([R1 EXCEPT !.cooldowns[cacheKey] = t], h, t)

(***************************************************************************)
(* fetchMatchesWithVideo and the league breaker.                            *)
(***************************************************************************)
LeagueIds == {1, 2}

\* Math.min(10 * 60 * 1000, 1000 * 2 ** Math.min(failures, 6))
LeagueBackoffMs(failures) == Min(10 * 60 * 1000, 1000 * 2 ^ Min(failures, 6))

\* breaker && breaker.blockedUntil > now
LeagueBlocks(breaker, t) == breaker # NoBreaker /\ breaker.blockedUntil > t

\* The breaker entry after requestHelabet succeeded: the success path does not
\* touch LEAGUE_BREAKER.
LeagueBreakerAfterSuccess(breaker) == breaker

\* LEAGUE_BREAKER.set(leagueId, {failures, blockedUntil: now + backoffMs})
LeagueBreakerAfterFailure(failuresRead, startedAt) ==
  [failures |-> failuresRead + 1,
   blockedUntil |-> startedAt + LeagueBackoffMs(failuresRead + 1)]

\* Locals of a fetchMatchesWithVideo call: leagueId, `now`, the failures of
\* the `breaker` it read, and the warning it returns ("" for none).
\* History: upstream (requestHelabet was called).
NoLeagueCall ==
  [pc |-> "idle", leagueId |-> 0, startedAt |-> 0, failuresRead |-> 0,
   warning |-> "", upstream |-> FALSE]

LeagueCallers == {c \in Callers : c <= 2}

\* A number | null result of deriveTtlFromUrl, with the time of the call.
NoDerived == [done |-> FALSE, at |-> 0, ttl |-> Null]

(***************************************************************************)
(* dedupe of the live aggregator (preferNext, mergeEntries).                *)
(***************************************************************************)
\* The longest list given to dedupe.
MaxItems == 3

\* A StreamEntry: id, matchKey ("" stands for null), hasStream, videoId and
\* sgi ("" for null), videoSource, feedSource, odds ("" for null), link,
\* status, dateISO ("" for null) and bucket.
Entry(id, matchKey, hasStream, videoId, sgi, feedSource, odds, status, dateISO, bucket) ==
  [id |-> id, matchKey |-> matchKey, hasStream |-> hasStream,
   videoId |-> videoId, sgi |-> sgi,
   videoSource |-> IF hasStream THEN "helabet" ELSE "none",
   feedSource |-> feedSource, odds |-> odds, link |-> "", status |-> status,
   dateISO |-> dateISO, bucket |-> bucket]

\* The records given to dedupe: for the key k1 one with a stream and a low
\* score, two without a stream that score equally, and one with a stream by
\* sgi; a record of another key; and a record without matchKey whose id is k1.
Entries ==
  {Entry("a", "k1", TRUE, "v1", "", "prematch", "", "upcoming", "", "week"),
   Entry("b", "k1", FALSE, "", "", "live", "o1", "live", "d1", "today"),
   Entry("c", "k1", FALSE, "", "", "live", "o2", "live", "d2", "today"),
   Entry("d", "k1", TRUE, "", "s1", "live", "", "live", "", "tomorrow"),
   Entry("e", "k2", FALSE, "", "", "prematch", "", "upcoming", "d1", "week"),
   Entry("k1", "", FALSE, "", "", "prematch", "o1", "finished", "", "week")}

RECURSIVE SeqsUpTo(_, _)
SeqsUpTo(S, n) ==
  IF n = 0 THEN {<<>>}
  ELSE LET shorter == SeqsUpTo(S, n - 1)
       IN shorter \cup {Append(q, e) : q \in shorter, e \in S}

ItemLists == SeqsUpTo(Entries, MaxItems)

\* entry.matchKey ?? entry.id
KeyOf(entry) == IF entry.matchKey = "" THEN entry.id ELSE entry.matchKey

\* score(entry) of preferNext, in twentieths (4, 2, 3, 1, 0.5, 0.25, 0.2).
Score(entry) ==
  (IF entry.hasStream THEN 80 ELSE 0)
  + (IF entry.feedSource = "live" THEN 40 ELSE 0)
  + (IF entry.odds # "" THEN 60 ELSE 0)
  + (IF entry.status = "live" THEN 20 ELSE 0)
  + (IF entry.dateISO # "" THEN 10 ELSE 0)
  + (IF entry.bucket = "today" THEN 5 ELSE 0)
  + (IF entry.bucket = "tomorrow" THEN 4 ELSE 0)

\* Mutant: the score alone decides.
PreferNextByScore(next, current) == Score(next) > Score(current)

PreferNext(next, current) ==
  IF next.hasStream /\ ~current.hasStream THEN TRUE
  ELSE IF ~next.hasStream /\ current.hasStream THEN FALSE
  ELSE Score(next) > Score(current)

MergeEntries(primary, secondary) ==
  LET p1 == IF primary.odds = "" /\ secondary.odds # ""
            THEN [primary EXCEPT !.odds = secondary.odds] ELSE primary
      p2 == IF p1.link = "" /\ secondary.link # ""
            THEN [p1 EXCEPT !.link = secondary.link] ELSE p1
      p3 == IF ~p2.hasStream /\ secondary.hasStream
            THEN [p2 EXCEPT !.hasStream = TRUE,
                            !.videoSource = secondary.videoSource,
                            !.feedSource = secondary.feedSource]
            ELSE p2
      p4 == IF p3.dateISO = "" /\ secondary.dateISO # ""
            THEN [p3 EXCEPT !.dateISO = secondary.dateISO,
                            !.bucket = secondary.bucket]
            ELSE p3
  IN p4

\* byKey after items.forEach: the Map as the sequence of its {key, entry}
\* pairs in insertion order.
RECURSIVE DedupeInto(_, _)
DedupeInto(byKey, list) ==
  IF list = <<>> THEN byKey
  ELSE LET entry == Head(list)
           key == KeyOf(entry)
           at == {i \in 1..Len(byKey) : byKey[i].key = key}
       IN IF at = {}
          THEN DedupeInto(Append(byKey, [key |-> key, entry |-> entry]),
                          Tail(list))
          ELSE LET i == CHOOSE j \in at : TRUE
                   existing == byKey[i].entry
                   preferEntry == IF PreferNext(entry, existing)
                                  THEN entry ELSE existing
                   other == IF preferEntry = entry THEN existing ELSE entry
                   merged == MergeEntries(preferEntry, other)
               IN DedupeInto([byKey EXCEPT ![i].entry = merged], Tail(list))

\* Array.from(byKey.values())
Dedupe(list) ==
  LET byKey == DedupeInto(<<>>, list)
  IN [i \in 1..Len(byKey) |-> byKey[i].entry]

NoDeduped == [done |-> FALSE, out |-> <<>>]

(***************************************************************************)
(* The arguments of deriveTtlFromUrl.                                       *)
(***************************************************************************)
\* The `t` tokens: none, 30 s, 31 s, 61 s, 5 min and 5 min 30 s after the
\* first instant, a number followed by letters, letters, a negative number
\* and a number after a space.
Tokens ==
  {<<>>, <<"3", "0", "0", "0", "1">>, <<"3", "1", "0", "0", "1">>,
   <<"6", "1", "0", "0", "1">>, <<"3", "0", "0", "0", "0", "1">>,
   <<"3", "3", "0", "0", "0", "1">>, <<"9", "9", "0", "0", "1", "x">>,
   <<"x", "1">>, <<"-", "5">>, <<" ", "9", "0", "0", "0", "1">>}

UrlChoices ==
  {Url("u1", TRUE, tok) : tok \in Tokens}
    \cup {NoUrl, Url("u2", FALSE, <<"6", "1", "0", "0", "1">>)}

TtlInstants == {1001, 31001, 300001}

(***************************************************************************)
(* LiveAggregator.fetchAndNormalize (src/src/lib/liveAggregator.ts): from   *)
(* the normalised marketing events and the converted Helabet matches to     *)
(* the lists `all` and `streams`. The records of the model have no          *)
(* startISO (startTimeMs is null) and HELABET_EXTRA_SPORTS is not set.      *)
(***************************************************************************)
\* A StreamEntry with its origin ("marketing" or "helabet").
WithOrigin(entry, origin) == entry @@ [origin |-> origin]

\* What normalizeEvent returned for each raw event.
Mapped(list) == [i \in 1..Len(list) |-> WithOrigin(list[i], "marketing")]

\* convertHelabetMatchToStream: a record with videoId or sgi, hasStream
\* true, origin "helabet", feedSource "live".
HelabetEntry(id, matchKey, videoId, sgi, status) ==
  WithOrigin(Entry(id, matchKey, TRUE, videoId, sgi, "live", "", status, "", "today"), "helabet")

\* The Helabet matches: one of the key k1 with a video id, one of a new key
\* whose video id the record "a" has already, one of the key k2 with an sgi
\* only, and an upcoming one of a new key.
HelabetEntries ==
  {HelabetEntry("h1", "k1", "v9", "", "live"),
   HelabetEntry("h2", "k3", "v1", "", "live"),
   HelabetEntry("h3", "k2", "", "s2", "live"),
   HelabetEntry("h4", "k4", "v4", "", "upcoming")}

MaxStreams == 2

HelabetLists == SeqsUpTo(HelabetEntries, MaxStreams)

\* Mutant: the flag is set whatever the identifiers are.
HasStreamAlways(entry) == [entry EXCEPT !.hasStream = TRUE]

\* entry.hasStream = Boolean(entry.videoId || entry.sgi)
HasStreamOf(entry) ==
  [entry EXCEPT !.hasStream = (entry.videoId # "" \/ entry.sgi # "")]

\* matches.forEach of mergeHelabetStreams: byKey is read off `result` (the
\* entry registered last under a key), byVideoId is the set kept beside it.
RECURSIVE MergeHelabetInto(_, _, _)
MergeHelabetInto(result, byVideoId, streams) ==
  IF streams = <<>> THEN result
  ELSE LET stream == Head(streams)
           key == KeyOf(stream)
           at == {i \in 1..Len(result) : KeyOf(result[i]) = key}
       IN IF at # {}
          THEN LET i == CHOOSE j \in at : \A k \in at : k <= j
                   existing == result[i]
                   e1 == IF existing.videoId = "" /\ stream.videoId # ""
                         THEN [existing EXCEPT !.videoId = stream.videoId]
                         ELSE existing
                   e2 == IF e1.sgi = "" /\ stream.sgi # ""
                         THEN [e1 EXCEPT !.sgi = stream.sgi] ELSE e1
                   e3 == IF stream.videoId # "" \/ stream.sgi # ""
                         THEN [e2 EXCEPT !.hasStream = TRUE,
                                         !.videoSource = "helabet"]
                         ELSE e2
               IN MergeHelabetInto([result EXCEPT ![i] = HasStreamOf(e3)],
                                   byVideoId, Tail(streams))
          ELSE IF stream.videoId # "" /\ stream.videoId \in byVideoId
          THEN MergeHelabetInto(result, byVideoId, Tail(streams))
          ELSE MergeHelabetInto(
                 Append(result, stream),
                 byVideoId \cup ({stream.videoId} \ {""}),
                 Tail(streams))

MergeHelabetStreams(base, streams) ==
  IF streams = <<>> THEN base
  ELSE MergeHelabetInto(
         base, {base[i].videoId : i \in 1..Len(base)} \ {""}, streams)

\* marketingTodayEntries, helabetLiveEntries and helabetUpcomingEntries: an
\* upcoming Helabet record without a start time is left out.
InSchedule(entry) ==
  \/ entry.origin = "marketing" /\ entry.bucket = "today"
  \/ entry.origin = "helabet" /\ entry.status = "live"

HasStream(entry) == entry.hasStream

\* fetchAndNormalize from `mapped` on: dedupe, the Helabet merge, the
\* recomputed flags, and the two lists it returns.
FetchAndNormalize(list, streams) ==
  LET filtered == Dedupe(Mapped(list))
      merged == MergeHelabetStreams(filtered, streams)
      mergedWithHelabet == [i \in 1..Len(merged) |-> HasStreamOf(merged[i])]
      scheduleEntries ==
        SelectSeq(Dedupe(SelectSeq(mergedWithHelabet, InSchedule)), HasStream)
  IN [done |-> TRUE, all |-> scheduleEntries,
      streams |-> SelectSeq(mergedWithHelabet, HasStream)]

NoAggregation == [done |-> FALSE, all |-> <<>>, streams |-> <<>>]

(***************************************************************************)
(* mapStreamMatch (src/server/lib/helabet.ts): the video id of a raw match. *)
(* Strings are sequences of characters, so that trim() has work to do.      *)
(***************************************************************************)
\* A JavaScript value: its typeof ("undefined", "null" for null, "string",
\* "number", "boolean"), and the characters or the number it is.
Value(type, chars, n) == [type |-> type, chars |-> chars, n |-> n]
Undefined == Value("undefined", <<>>, 0)
JsNull == Value("null", <<>>, 0)
Str(chars) == Value("string", chars, 0)
Num(n) == Value("number", <<>>, n)

\* The values of the fields VI and VideoId: absent, null, the empty string,
\* white space only, an id with white space around or inside it, a plain
\* id, the numbers 0 and 12, and a boolean.
RawValues ==
  {Undefined, JsNull, Str(<<>>), Str(<<" ">>), Str(<<"\t", " ">>),
   Str(<<" ", "v", "1", " ">>), Str(<<"v", " ", "1">>), Str(<<"v", "1">>),
   Num(0), Num(12), Value("boolean", <<>>, 1)}

\* A raw match: an object with the fields VI and VideoId, or not an object.
RawMatch(isObject, VI, VideoId) ==
  [isObject |-> isObject, VI |-> VI, VideoId |-> VideoId]

NoRawMatch == RawMatch(FALSE, Undefined, Undefined)

RawMatches ==
  {RawMatch(TRUE, a, b) : a \in RawValues, b \in RawValues} \cup {NoRawMatch}

WhiteSpace == {" ", "\t"}

RECURSIVE TrimStart(_)
TrimStart(chars) ==
  IF chars # <<>> /\ Head(chars) \in WhiteSpace
  THEN TrimStart(Tail(chars)) ELSE chars

RECURSIVE TrimEnd(_)
TrimEnd(chars) ==
  IF chars # <<>> /\ chars[Len(chars)] \in WhiteSpace
  THEN TrimEnd(SubSeq(chars, 1, Len(chars) - 1)) ELSE chars

\* Mutant: the string is taken as it is.
TrimCharsKeep(chars) == chars

\* String.prototype.trim
TrimChars(chars) == TrimEnd(TrimStart(chars))

\* String(n) of a non-negative integer.
RECURSIVE NumberToString(_)
NumberToString(n) ==
  LET digit == CHOOSE ch \in Digits : DigitValue(ch) = n % 10
  IN IF n < 10 THEN <<digit>> ELSE Append(NumberToString(n \div 10), digit)

\* a ?? b
Coalesce(a, b) == IF a.type \in {"undefined", "null"} THEN b ELSE a

NoStreamMatch == [null |-> TRUE, videoId |-> <<>>]

\* mapStreamMatch: null, or the StreamMatch, of which the model keeps the
\* videoId (no other field is read to make it).
MapStreamMatch(match) ==
  IF ~match.isObject THEN NoStreamMatch
  ELSE LET videoIdRaw == Coalesce(match.VI, match.VideoId)
           videoId == IF videoIdRaw.type = "string"
                      THEN TrimChars(videoIdRaw.chars)
                      ELSE IF videoIdRaw.type = "number"
                      THEN NumberToString(videoIdRaw.n)
                      ELSE <<>>
       IN IF videoId = <<>> THEN NoStreamMatch
          ELSE [null |-> FALSE, videoId |-> videoId]

NoMapped == [done |-> FALSE, out |-> NoStreamMatch]

(***************************************************************************)
(* The player page script (PLAYER_HTML of src/unnamed/part_005).            *)
(***************************************************************************)
MaxSends == 3
MaxTimers == 3

GEO_BLOCKED_MESSAGE == "Video not available in your region."
RetryingMessage == "Stream temporarily unavailable. Retrying"

\* The script's variables: geoBlocked, refreshTimer (0: null, else the id
\* window.setTimeout returned), retryDelay, hls (an Hls instance is
\* attached), readySignalled, and statusEl.textContent. Beside them: loaded
\* (how far the page is), hlsSupported (window.Hls.isSupported()), timers
\* (the ids of the timers armed and neither fired nor cleared), armed (the
\* number of timers made), inflight (the fetches of /api/resolve awaited),
\* sends (the fetches made) and applied (the applySource calls).
NoPlayer ==
  [loaded |-> "no", hlsSupported |-> TRUE, geoBlocked |-> FALSE,
   refreshTimer |-> 0, timers |-> {}, armed |-> 0, retryDelay |-> 2000,
   hls |-> FALSE, readySignalled |-> FALSE, status |-> "",
   inflight |-> 0, sends |-> 0, applied |-> 0]

\* if (refreshTimer) clearTimeout(refreshTimer): clearing a timer that has
\* fired does nothing.
ClearRefreshTimer(p) == [p EXCEPT !.timers = @ \ {p.refreshTimer}]

\* window.setTimeout(...), its id stored in refreshTimer.
ArmTimer(p) ==
  [p EXCEPT !.armed = @ + 1, !.refreshTimer = p.armed + 1,
            !.timers = @ \cup {p.armed + 1}]

Cleanup(p) ==
  [ClearRefreshTimer(p) EXCEPT !.refreshTimer = 0, !.hls = FALSE]

HandleGeoBlocked(p) ==
  IF p.geoBlocked THEN p
  ELSE [Cleanup([p EXCEPT !.geoBlocked = TRUE])
          EXCEPT !.status = GEO_BLOCKED_MESSAGE]

\* applySource: the old Hls instance is destroyed and, where Hls is
\* supported, a new one is attached; otherwise videoEl.src is set.
ApplySource(p) == [p EXCEPT !.hls = p.hlsSupported, !.applied = @ + 1]

ScheduleRefresh(p) == IF p.geoBlocked THEN p ELSE ArmTimer(p)

ScheduleRetry(p) ==
  LET cleared == ClearRefreshTimer(p)
      delay == Min(p.retryDelay, 60000)
  IN IF p.geoBlocked THEN cleared
     ELSE [ArmTimer(cleared) EXCEPT !.retryDelay = Min(delay * 2, 60000)]

\* resolveStream up to its await of fetch("/api/resolve").
ResolveStream(p, force) ==
  IF p.geoBlocked THEN [p EXCEPT !.status = GEO_BLOCKED_MESSAGE]
  ELSE [ClearRefreshTimer(p)
          EXCEPT !.refreshTimer = 0,
                 !.status = IF force THEN "" ELSE "Loading stream",
                 !.inflight = @ + 1, !.sends = @ + 1]

\* How a fetch of /api/resolve ends: 200 with a url, 403, 404, and every
\* other end (another status, no url in the payload, a network error).
ResolveOutcomes == {"url", "forbidden", "notFound", "failed"}

\* resolveStream from the response on.
AfterResolve(p, outcome) ==
  CASE outcome = "forbidden" -> HandleGeoBlocked(p)
    [] outcome = "url" ->
         [ScheduleRefresh(ApplySource(p))
            EXCEPT !.status = "", !.retryDelay = 2000,
                   !.readySignalled = TRUE]
    [] outcome = "notFound" -> [p EXCEPT !.status = "Stream not found."]
    [] OTHER -> ScheduleRetry([p EXCEPT !.status = RetryingMessage])

\* The Hls ERROR handler.
AfterHlsError(p, forbidden, fatal) ==
  IF forbidden THEN HandleGeoBlocked(p)
  ELSE IF fatal THEN ScheduleRetry([p EXCEPT !.status = RetryingMessage])
  ELSE p

(***************************************************************************)
(* LiveAggregator.getMatches (src/src/lib/liveAggregator.ts).               *)
(***************************************************************************)
MaxFetches == 3

TTL_MS == 15000

FetchIds == 1..MaxFetches

AggCallers == {c \in Callers : c <= 2}

\* this.cache (set: not null; updatedAt), this.inflight (0: null, else the
\* fetchAndNormalize call its promise wraps), each fetchAndNormalize call
\* (state, and whether a forced getMatches started it), and each
\* getMatches call (the fetch it awaits, and how it last returned).
NoAggregator ==
  [cache |-> [set |-> FALSE, updatedAt |-> 0], inflight |-> 0,
   fetch |-> [f \in FetchIds |-> [state |-> "unused", forced |-> FALSE]],
   calls |-> [c \in AggCallers |-> [awaits |-> 0, last |-> "none"]]]

CacheFresh(a, t) == a.cache.set /\ t - a.cache.updatedAt < TTL_MS

\* getMatches up to its await (or its return from the cache).
GetMatches(a, c, force, t) ==
  IF ~force /\ CacheFresh(a, t)
  THEN [a EXCEPT !.calls[c].last = "cache"]
  ELSE IF ~force /\ a.inflight # 0
  THEN [a EXCEPT !.calls[c].awaits = a.inflight]
  ELSE LET f == CHOOSE g \in FetchIds :
                  /\ a.fetch[g].state = "unused"
                  /\ \A k \in FetchIds : a.fetch[k].state = "unused" => g <= k
       IN [a EXCEPT !.fetch[f] = [state |-> "running", forced |-> force],
                    !.inflight = f,
                    !.calls[c].awaits = f]

\* The promise of a fetch settles: then() stores the result, finally()
\* empties the slot, and the calls that await it return.
FetchSettled(a, f, ok, t) ==
  [a EXCEPT !.cache = IF ok THEN [set |-> TRUE, updatedAt |-> t] ELSE @,
            !.inflight = 0,
            !.fetch[f].state = IF ok THEN "done" ELSE "failed",
            !.calls = [c \in AggCallers |->
                         IF a.calls[c].awaits = f
                         THEN [awaits |-> 0,
                               last |-> IF ok THEN "fetched" ELSE "error"]
                         ELSE a.calls[c]]]

(***************************************************************************)
(* MarketingAuth (src/unnamed/part_003) and MarketingClient.performRequest  *)
(* (src/src/lib/marketingClient.ts), with client id and secret configured.  *)
(***************************************************************************)
MaxTokens == 3

EXPIRY_BUFFER_MS == 60000

TokenIds == 1..MaxTokens

MarketingRequests == {r \in Callers : r <= 2}

\* A performRequest call: pc ("idle", "token": awaits getBearer, "data":
\* awaits the data call, "done"), forceRefresh (the argument of attempt),
\* awaits (the token fetch awaited), token (the bearer of the data call).
\* History: dataCalls, token1 and status1 (the first data call), status2
\* (the retry), invalidated (it called auth.invalidate()), ret.
NoRequest ==
  [pc |-> "idle", forceRefresh |-> FALSE, awaits |-> 0, token |-> 0,
   dataCalls |-> 0, token1 |-> 0, status1 |-> 0, status2 |-> 0,
   invalidated |-> FALSE, ret |-> "none"]

\* accessToken (0: null, else the number of the fetch that brought it),
\* expiresAt, inflight (0: null, else the fetchToken call), the fetchToken
\* calls, and the requests.
NoMarketing ==
  [accessToken |-> 0, expiresAt |-> 0, inflight |-> 0,
   tokenFetch |-> [f \in TokenIds |-> "unused"],
   req |-> [r \in MarketingRequests |-> NoRequest]]

IsTokenValid(m, t) ==
  IF m.accessToken = 0 THEN FALSE
  ELSE IF m.expiresAt = 0 THEN TRUE
  ELSE t + EXPIRY_BUFFER_MS < m.expiresAt

Invalidate(m) == [m EXCEPT !.accessToken = 0, !.expiresAt = 0]

\* The data call of a request goes out with the bearer it was given.
SendDataCall(m, r, token) ==
  [m EXCEPT !.req[r].pc = "data", !.req[r].awaits = 0,
            !.req[r].token = token,
            !.req[r].token1 = IF m.req[r].dataCalls = 0 THEN token ELSE @,
            !.req[r].dataCalls = @ + 1]

\* attempt(forceRefresh) up to its first await that does not end at once:
\* getBearer returns the valid token, the fetch in flight, or a new fetch.
Attempt(m, r, forceRefresh, t) ==
  LET m0 == [m EXCEPT !.req[r].forceRefresh = forceRefresh]
      m1 == IF forceRefresh THEN Invalidate(m0) ELSE m0
  IN IF IsTokenValid(m1, t) THEN SendDataCall(m1, r, m1.accessToken)
     ELSE IF m1.inflight # 0
     THEN [m1 EXCEPT !.req[r].pc = "token", !.req[r].awaits = m1.inflight]
     ELSE LET f == CHOOSE g \in TokenIds :
                     /\ m1.tokenFetch[g] = "unused"
                     /\ \A k \in TokenIds :
                          m1.tokenFetch[k] = "unused" => g <= k
          IN [m1 EXCEPT !.tokenFetch[f] = "running", !.inflight = f,
                        !.req[r].pc = "token", !.req[r].awaits = f]

\* Mutant: every 401 is retried.
RetriesOn401Always(status, forceRefresh) == status = 401

\* response.status === 401 && !forceRefresh
RetriesOn401(status, forceRefresh) == status = 401 /\ ~forceRefresh

\* attempt from the response of the data call on.
AfterDataCall(m, r, status, t) ==
  LET q == m.req[r]
      m0 == IF q.forceRefresh THEN [m EXCEPT !.req[r].status2 = status]
            ELSE [m EXCEPT !.req[r].status1 = status]
  IN IF RetriesOn401(status, q.forceRefresh)
     THEN Attempt(Invalidate([m0 EXCEPT !.req[r].invalidated = TRUE]),
                  r, TRUE, t)
     ELSE [m0 EXCEPT !.req[r].pc = "done",
                     !.req[r].ret = IF Ok(status) THEN "data" ELSE "error"]

\* fetchToken ends: the token is stored (or the error thrown), finally()
\* empties the slot, and every request that awaits it goes on.
RECURSIVE ResumeRequests(_, _, _, _)
ResumeRequests(m, rs, f, ok) ==
  IF rs = {} THEN m
  ELSE LET r == CHOOSE x \in rs : \A y \in rs : x <= y
           m1 == IF m.req[r].awaits # f THEN m
                 ELSE IF ok THEN SendDataCall(m, r, f)
                 ELSE [m EXCEPT !.req[r].pc = "done", !.req[r].awaits = 0,
                                !.req[r].ret = "error"]
       IN ResumeRequests(m1, rs \ {r}, f, ok)

TokenFetched(m, f, ok, expiresInSec, t) ==
  LET m1 == IF ok THEN [m EXCEPT !.accessToken = f,
                                 !.expiresAt = t + expiresInSec * 1000]
            ELSE m
      m2 == [m1 EXCEPT !.inflight = 0,
                       !.tokenFetch[f] = IF ok THEN "done" ELSE "failed"]
  IN ResumeRequests(m2, MarketingRequests, f, ok)

(***************************************************************************)
(* Initial state: a freshly constructed HelabetSession, no call running.    *)
(***************************************************************************)
InitRelay ==
  /\ now = 1
  /\ cookieJar = [n \in CookieNames |-> Absent]
  /\ cookieMeta = [n \in CookieNames |-> 0]
  /\ lastWarmup = 0
  /\ warmupPromise = 0
  /\ runPc = [r \in RunIds |-> "unused"]
  /\ runHdr = [r \in RunIds |-> EmptyHeader]
  /\ runNon2xx = [r \in RunIds |-> FALSE]
  /\ pc = [c \in Callers |-> "idle"]
  /\ call = [c \in Callers |-> NoCall]
  /\ lastSetCookie = [n \in CookieNames |-> Absent]
  /\ built = [header |-> EmptyHeader, at |-> 0]
  /\ RESOLVE_CACHE = [v \in VideoIds |-> NoEntry]
  /\ RESOLVE_BREAKER = [v \in VideoIds |-> NoBreaker]
  /\ rpc = [c \in Callers |-> "idle"]
  /\ rcall = [c \in Callers |-> NoResolve]
  /\ cache = [k \in RouteKeys |-> NoCacheEntry]
  /\ inflight = [k \in RouteKeys |-> 0]
  /\ cooldowns = [k \in RouteKeys |-> 0]
  /\ chain = [h \in Handlers |-> NoChain]
  /\ handler = [h \in Handlers |-> NoHandler]
  /\ LEAGUE_BREAKER = [l \in LeagueIds |-> NoBreaker]
  /\ lcall = [c \in Callers |-> NoLeagueCall]
  /\ derived = NoDerived
  /\ deduped = NoDeduped
  /\ aggregation = NoAggregation
  /\ streamMatch = NoMapped
  /\ player = NoPlayer
  /\ aggregator = NoAggregator
  /\ marketing = NoMarketing

\* The initial state of the relay; no pure function has an argument yet.
Init ==
  /\ InitRelay
  /\ rawUrl = NoUrl
  /\ items = <<>>
  /\ helabetStreams = <<>>
  /\ rawMatch = NoRawMatch

\* Time passes between macrotasks.
Tick(TS) ==
  /\ ~MicrotaskPending
  /\ \E t \in TS : t > now /\ NoDeadlineBefore(t) /\ now' = t
  /\ UNCHANGED <<cookieJar, cookieMeta, sessionCalls, jarHistory, resolveVars, relayVars>>

\* helabetRequest(path, {retryOnAuth}) is called.
CallRequest(c, retryOnAuth) ==
  /\ ~MicrotaskPending
  /\ pc[c] = "idle"
  /\ LET empty == JarSize(cookieJar) = 0
         cr0 == [NoCall EXCEPT !.kind = "request", !.flag = retryOnAuth,
                               !.emptyAtStart = empty]
     IN IF empty
        THEN LET w == WarmUp(Session, FALSE, now)
                 a == AfterWarmUpCall(cr0, w, "awaitOpp")
             IN /\ w.how # "none"
                /\ Commit(w.s)
                /\ pc' = [pc EXCEPT ![c] = a.pc]
                /\ call' = [call EXCEPT ![c] = a.cr]
        ELSE LET e == ExecuteRequestStart(cr0, Session, now)
             IN /\ Commit(e.s)
                /\ pc' = [pc EXCEPT ![c] = "send1"]
                /\ call' = [call EXCEPT ![c] = e.cr]
  /\ UNCHANGED <<now, runNon2xx, jarHistory, resolveVars, relayVars>>

\* warmUp(force) is called directly (the server calls warmUp() at boot).
CallWarmUp(c, force) ==
  /\ ~MicrotaskPending
  /\ pc[c] = "idle"
  /\ LET cr0 == [NoCall EXCEPT !.kind = "warmUp", !.flag = force]
         w == WarmUp(Session, force, now)
         a == AfterWarmUpCall(cr0, w, "awaitDirect")
     IN /\ w.how # "none"
        /\ Commit(w.s)
        /\ pc' = [pc EXCEPT ![c] = a.pc]
        /\ call' = [call EXCEPT ![c] = a.cr]
  /\ UNCHANGED <<now, runNon2xx, jarHistory, resolveVars, relayVars>>

\* The continuation of `await this.warmUp()` in a direct caller.
ResumeDirect(c) ==
  /\ pc[c] = "resumeDirect"
  /\ pc' = [pc EXCEPT ![c] = "done"]
  /\ call' = [call EXCEPT ![c].outcome = "none", ![c].ret =
                IF call[c].outcome = "ok" THEN "ok" ELSE "error"]
  /\ UNCHANGED <<now, cookieJar, cookieMeta, lastWarmup, warmupPromise, runPc,
                 runHdr, runNon2xx, jarHistory, resolveVars, relayVars>>

\* The continuation of helabetRequest after its opportunistic warmUp.
ResumeOpp(c) ==
  /\ pc[c] = "resumeOpp"
  /\ LET cr1 == [call[c] EXCEPT !.outcome = "none"]
     IN IF AfterOppWarmUp(call[c].outcome) = "proceed"
        THEN LET e == ExecuteRequestStart(cr1, Session, now)
             IN /\ Commit(e.s)
                /\ pc' = [pc EXCEPT ![c] = "send1"]
                /\ call' = [call EXCEPT ![c] = e.cr]
        ELSE /\ pc' = [pc EXCEPT ![c] = "done"]
             /\ call' = [call EXCEPT ![c] = [cr1 EXCEPT !.ret = "error"]]
             /\ UNCHANGED <<cookieJar, cookieMeta, lastWarmup, warmupPromise,
                            runPc, runHdr>>
  /\ UNCHANGED <<now, runNon2xx, jarHistory, resolveVars, relayVars>>

\* The first attemptFetch resolves with a response.
Response1(c, status, parsed) ==
  /\ ~MicrotaskPending
  /\ pc[c] = "send1"
  /\ LET s1 == UpdateFromSetCookie(Session, parsed, now)
         cr1 == [call[c] EXCEPT !.status1 = status]
     IN IF ShouldRetry(call[c].flag, status)
        THEN LET w == WarmUp(s1, TRUE, now)
                 a == AfterWarmUpCall(cr1, w, "awaitForced")
             IN /\ w.how # "none"
                /\ Commit(w.s)
                /\ pc' = [pc EXCEPT ![c] = a.pc]
                /\ call' = [call EXCEPT ![c] = a.cr]
        ELSE /\ Commit(s1)
             /\ pc' = [pc EXCEPT ![c] = "done"]
             /\ call' = [call EXCEPT ![c] =
                           [cr1 EXCEPT !.ret = "response", !.retStatus = status,
                                       !.hdr = EmptyHeader]]
  /\ UNCHANGED <<now, runNon2xx, jarHistory, resolveVars, relayVars>>

\* The first attemptFetch rejects (DNS, timeout, refused): executeRequest has
\* no handler around it, the call rejects.
NetworkError1(c) ==
  /\ ~MicrotaskPending
  /\ pc[c] = "send1"
  /\ pc' = [pc EXCEPT ![c] = "done"]
  /\ call' = [call EXCEPT ![c].ret = "error", ![c].netErr = 1,
                          ![c].hdr = EmptyHeader]
  /\ UNCHANGED <<now, cookieJar, cookieMeta, lastWarmup, warmupPromise, runPc,
                 runHdr, runNon2xx, jarHistory, resolveVars, relayVars>>

\* The continuation of executeRequest after the forced warmUp.
ResumeForced(c) ==
  /\ pc[c] = "resumeForced"
  /\ IF AfterForcedWarmUp(call[c].outcome) = "retry"
     THEN /\ pc' = [pc EXCEPT ![c] = "send2"]
          /\ call' = [call EXCEPT
               ![c].outcome = "none",
               ![c].hdr = RetryCookieHeader(call[c], Session, now),
               ![c].retryFresh = (RetryCookieHeader(call[c], Session, now)
                                    = BuildCookieHeader(Session, now).header),
               ![c].sends = @ + 1]
     ELSE /\ pc' = [pc EXCEPT ![c] = "done"]
          /\ call' = [call EXCEPT
               ![c].outcome = "none",
               ![c].hdr = EmptyHeader,
               ![c].forcedFailed = (call[c].outcome = "failed"),
               ![c].ret = IF AfterForcedWarmUp(call[c].outcome) = "returnOriginal"
                          THEN "response" ELSE "error",
               ![c].retStatus = IF AfterForcedWarmUp(call[c].outcome) = "returnOriginal"
                                THEN call[c].status1 ELSE 0]
  /\ UNCHANGED <<now, cookieJar, cookieMeta, lastWarmup, warmupPromise, runPc,
                 runHdr, runNon2xx, jarHistory, resolveVars, relayVars>>

\* The second attemptFetch resolves: its response is returned.
Response2(c, status, parsed) ==
  /\ ~MicrotaskPending
  /\ pc[c] = "send2"
  /\ Commit(UpdateFromSetCookie(Session, parsed, now))
  /\ pc' = [pc EXCEPT ![c] = "done"]
  /\ call' = [call EXCEPT ![c].status2 = status, ![c].ret = "response",
                          ![c].retStatus = status, ![c].hdr = EmptyHeader]
  /\ UNCHANGED <<now, runNon2xx, jarHistory, resolveVars, relayVars>>

\* The second attemptFetch rejects inside the try block.
NetworkError2(c) ==
  /\ ~MicrotaskPending
  /\ pc[c] = "send2"
  /\ pc' = [pc EXCEPT ![c] = "done"]
  /\ call' = [call EXCEPT
       ![c].netErr = 2,
       ![c].hdr = EmptyHeader,
       ![c].ret = IF AfterRetryError = "returnOriginal" THEN "response" ELSE "error",
       ![c].retStatus = IF AfterRetryError = "returnOriginal"
                        THEN call[c].status1 ELSE 0]
  /\ UNCHANGED <<now, cookieJar, cookieMeta, lastWarmup, warmupPromise, runPc,
                 runHdr, runNon2xx, jarHistory, resolveVars, relayVars>>

\* The caller has its result; it may call again.
Return(c) ==
  /\ pc[c] = "done"
  /\ pc' = [pc EXCEPT ![c] = "idle"]
  /\ call' = [call EXCEPT ![c] = NoCall]
  /\ UNCHANGED <<now, cookieJar, cookieMeta, lastWarmup, warmupPromise, runPc,
                 runHdr, runNon2xx, jarHistory, resolveVars, relayVars>>

\* The GET of a warm-up step resolves with a response.
StepResponse(r, status, parsed) ==
  /\ ~MicrotaskPending
  /\ runPc[r] \in FetchSteps
  /\ LET s1 == UpdateFromSetCookie(Session, parsed, now)
     IN IF StepThrows(status)
        THEN Settle(s1, r, "failed")
        ELSE /\ Commit([s1 EXCEPT !.run[r] = BodyOf(runPc[r]),
                                  !.hdr[r] = EmptyHeader])
             /\ runNon2xx' = [runNon2xx EXCEPT ![r] = @ \/ ~Ok(status)]
             /\ UNCHANGED <<pc, call>>
  /\ UNCHANGED <<now, jarHistory, resolveVars, relayVars>>

\* The GET of a warm-up step rejects.
StepNetworkError(r) ==
  /\ ~MicrotaskPending
  /\ runPc[r] \in FetchSteps
  /\ Settle(Session, r, "failed")
  /\ UNCHANGED <<now, jarHistory, resolveVars, relayVars>>

\* response.arrayBuffer() of a step resolves: the next step is issued, or the
\* sequence ends and records lastWarmup.
StepBodyDone(r) ==
  /\ ~MicrotaskPending
  /\ runPc[r] \in BodySteps
  /\ LET next == NextWarmUpStep(StepOf(runPc[r]), Session)
     IN IF next = "finish"
        THEN Settle([Session EXCEPT !.last = now], r, "ok")
        ELSE /\ Commit(PerformWarmUpStep(Session, r, next, now))
             /\ UNCHANGED <<pc, call, runNon2xx>>
  /\ UNCHANGED <<now, jarHistory, resolveVars, relayVars>>

\* response.arrayBuffer() of a step rejects.
StepBodyError(r) ==
  /\ ~MicrotaskPending
  /\ runPc[r] \in BodySteps
  /\ Settle(Session, r, "failed")
  /\ UNCHANGED <<now, jarHistory, resolveVars, relayVars>>

\* The next-state relation for the callers CS, who pass retryOnAuth from FS,
\* with the upstream answering with the statuses SS and the Set-Cookie headers
\* PS, and the clock taking the instants TS.
NextOf(CS, FS, SS, PS, TS) ==
  \/ Tick(TS)
  \/ \E c \in CS \cap Requesters, b \in FS : CallRequest(c, b)
  \/ \E c \in CS, b \in BOOLEAN : CallWarmUp(c, b)
  \/ \E c \in CS : ResumeDirect(c)
  \/ \E c \in CS : ResumeOpp(c)
  \/ \E c \in CS : ResumeForced(c)
  \/ \E c \in CS, st \in SS, p \in PS : Response1(c, st, p)
  \/ \E c \in CS : NetworkError1(c)
  \/ \E c \in CS, st \in SS, p \in PS : Response2(c, st, p)
  \/ \E c \in CS : NetworkError2(c)
  \/ \E c \in CS : Return(c)
  \/ \E r \in RunIds, st \in SS, p \in PS : StepResponse(r, st, p)
  \/ \E r \in RunIds : StepNetworkError(r)
  \/ \E r \in RunIds : StepBodyDone(r)
  \/ \E r \in RunIds : StepBodyError(r)

\* One caller at a time, every status and Set-Cookie of the model.
Next == NextOf({1}, BOOLEAN, StatusChoices, SetCookieChoices, Instants)

Spec == Init /\ [][Next]_vars

\* Overlapping callers, with the statuses and cookies that decide the paths.
CoStatusChoices == {200, 406}

CoSetCookieChoices ==
  { {},
    {Ck("SESSION", "v1", FALSE, 0, FALSE, 0)},
    {Ck("SESSION", "", TRUE, 0, FALSE, 0)} }

\* The instants on either side of the reuse window of a warm-up at time 1.
CoInstants == {1, 600000, 600001}

NextCo ==
  NextOf(Callers, {TRUE}, CoStatusChoices, CoSetCookieChoices, CoInstants)

SpecCo == Init /\ [][NextCo]_vars

(***************************************************************************)
(* The cookie jar on its own: responses are applied to it and cookie        *)
(* headers are built from it, by whichever request or warm-up step.         *)
(***************************************************************************)

RemovedMark == "<removed>"

\* What the Set-Cookie header d, received at time t, asks for: to remove the
\* name (Max-Age=0, an empty value, an expiry at or before t) or to store its
\* value.
AskedFor(d, t) ==
  IF \/ d.hasMaxAge /\ d.maxAge = 0
     \/ Trim(d.value) = ""
     \/ (ResolveCookieExpiry(d, t) # 0 /\ ResolveCookieExpiry(d, t) <= t)
  THEN RemovedMark
  ELSE Trim(d.value)

\* updateFromSetCookie(response.headers) for a response with the Set-Cookie
\* headers `raw`.
ResponseApplied(raw) ==
  /\ Commit(UpdateFromSetCookie(Session, ParseSetCookie(raw), now))
  /\ lastSetCookie' =
       [n \in CookieNames |->
          IF LastNamed(raw, n) = 0 THEN lastSetCookie[n]
          ELSE AskedFor(raw[LastNamed(raw, n)], now)]
  /\ UNCHANGED <<now, runNon2xx, pc, call, built, resolveVars, relayVars>>

\* buildCookieHeader() for an outgoing request.
HeaderBuilt ==
  /\ LET b == BuildCookieHeader(Session, now)
     IN /\ Commit(b.s)
        /\ built' = [header |-> b.header, at |-> now]
  /\ UNCHANGED <<now, runNon2xx, pc, call, lastSetCookie, resolveVars, relayVars>>

NextJar ==
  \/ Tick(Instants)
  \/ \E raw \in RawSetCookieChoices : ResponseApplied(raw)
  \/ HeaderBuilt

SpecJar == Init /\ [][NextJar]_vars

(***************************************************************************)
(* resolveVideoStream and the requestHelabet call it awaits.                *)
(***************************************************************************)

\* The call ends: its promise settles with the record r.
ResolveEnds(c, r) ==
  /\ rpc' = [rpc EXCEPT ![c] = "done"]
  /\ rcall' = [rcall EXCEPT ![c] = [r EXCEPT !.startedAt = 0]]

\* The try block after requestHelabet returned a body with the URL `url`.
ResolveSucceeds(c, url) ==
  LET v == rcall[c].videoId
  IN /\ RESOLVE_CACHE' =
          [RESOLVE_CACHE EXCEPT ![v] = EntryAfterSuccess(url, rcall[c].startedAt)]
     /\ RESOLVE_BREAKER' =
          [RESOLVE_BREAKER EXCEPT ![v] = BreakerAfterSuccess(RESOLVE_BREAKER[v])]
     /\ ResolveEnds(c, [rcall[c] EXCEPT !.ret = "result", !.url = url,
                                        !.ttlHintSec = RESOLVE_TTL_HINT])

\* The catch block: the breaker entry is written and the error rethrown.
ResolveFails(c, message) ==
  LET v == rcall[c].videoId
  IN /\ RESOLVE_BREAKER' =
          [RESOLVE_BREAKER EXCEPT ![v] =
             BreakerAfterFailure(rcall[c].failuresRead, rcall[c].startedAt)]
     /\ ResolveEnds(c, [rcall[c] EXCEPT !.ret = "error", !.error = message])
     /\ UNCHANGED RESOLVE_CACHE

\* resolveVideoStream(videoId) is called and runs to its first await.
CallResolve(c, v) ==
  /\ rpc[c] = "idle"
  /\ LET r0 == [NoResolve EXCEPT !.videoId = v, !.startedAt = now]
     IN IF StartsWith(v, DEMO_STREAM_PREFIX)
        THEN /\ RESOLVE_CACHE' = [RESOLVE_CACHE EXCEPT ![v] = DemoEntry(now)]
             /\ ResolveEnds(c, [r0 EXCEPT !.ret = "result",
                                          !.url = DEMO_STREAM_URL,
                                          !.ttlHintSec = DemoTtlSec])
             /\ UNCHANGED RESOLVE_BREAKER
        ELSE IF CacheLive(RESOLVE_CACHE[v], now)
        THEN /\ ResolveEnds(c, [r0 EXCEPT !.ret = "result",
                                          !.url = RESOLVE_CACHE[v].url,
                                          !.ttlHintSec = RESOLVE_CACHE[v].ttlHintSec,
                                          !.fromCache = TRUE])
             /\ UNCHANGED <<RESOLVE_CACHE, RESOLVE_BREAKER>>
        ELSE IF BreakerBlocks(RESOLVE_BREAKER[v], now)
        THEN /\ ResolveEnds(c, [r0 EXCEPT !.ret = "error",
                                          !.error = "resolve_circuit_open"])
             /\ UNCHANGED <<RESOLVE_CACHE, RESOLVE_BREAKER>>
        ELSE /\ rpc' = [rpc EXCEPT ![c] = "fetch1"]
             /\ rcall' = [rcall EXCEPT ![c] =
                            [r0 EXCEPT !.failuresRead = RESOLVE_BREAKER[v].failures,
                                       !.sends = 1]]
             /\ UNCHANGED <<RESOLVE_CACHE, RESOLVE_BREAKER>>
  /\ UNCHANGED <<now, cookieJar, cookieMeta, sessionCalls, jarHistory, relayVars>>

\* An attempt of requestHelabet gets an ok response whose body parses: the
\* body is returned; without a URL in it resolveVideoStream throws
\* resolve_failed inside its try block.
AttemptData(c, url) ==
  /\ rpc[c] \in {"fetch1", "fetch2"}
  /\ IF url # ""
     THEN ResolveSucceeds(c, url)
     ELSE ResolveFails(c, "resolve_failed")
  /\ UNCHANGED <<now, cookieJar, cookieMeta, sessionCalls, jarHistory, relayVars>>

\* An attempt of requestHelabet fails (a response that is not ok, a network
\* error, the abort, a body that does not parse): the first failure is
\* followed by a delay, the second is thrown.
AttemptFails(c) ==
  /\ rpc[c] \in {"fetch1", "fetch2"}
  /\ IF rpc[c] = "fetch1"
     THEN /\ rpc' = [rpc EXCEPT ![c] = "delay"]
          /\ UNCHANGED <<rcall, RESOLVE_CACHE, RESOLVE_BREAKER>>
     ELSE ResolveFails(c, "request_failed")
  /\ UNCHANGED <<now, cookieJar, cookieMeta, sessionCalls, jarHistory, relayVars>>

\* The delay between the attempts has passed: the second fetch is issued.
RetryTimer(c) ==
  /\ rpc[c] = "delay"
  /\ now > rcall[c].startedAt
  /\ rpc' = [rpc EXCEPT ![c] = "fetch2"]
  /\ rcall' = [rcall EXCEPT ![c].sends = @ + 1]
  /\ UNCHANGED <<now, cookieJar, cookieMeta, sessionCalls, jarHistory,
                 RESOLVE_CACHE, RESOLVE_BREAKER, relayVars>>

\* The caller has the result or the error; it may call again.
ResolveReturn(c) ==
  /\ rpc[c] = "done"
  /\ rpc' = [rpc EXCEPT ![c] = "idle"]
  /\ rcall' = [rcall EXCEPT ![c] = NoResolve]
  /\ UNCHANGED <<now, cookieJar, cookieMeta, sessionCalls, jarHistory,
                 RESOLVE_CACHE, RESOLVE_BREAKER, relayVars>>

\* The instants of the resolve specification: inside, at and past the first
\* backoff (2 s) and the cache lifetime (90 s) of a call made at time 1.
ResolveInstants == {1001, 2001, 90001}

NextResolve ==
  \/ Tick(ResolveInstants)
  \/ \E c \in Resolvers, v \in VideoIds : CallResolve(c, v)
  \/ \E c \in Resolvers, u \in UpstreamUrls : AttemptData(c, u)
  \/ \E c \in Resolvers : AttemptFails(c)
  \/ \E c \in Resolvers : RetryTimer(c)
  \/ \E c \in Resolvers : ResolveReturn(c)

SpecResolve == Init /\ [][NextResolve]_vars

\* The instants of the breaker's specification: the ends of the blocks of
\* seven failures in a row, each call made when the block before it ended.
BackoffInstants == {2001, 6001, 14001, 30001, 60001, 90001}

\* One caller resolves one identifier again and again.
NextBackoff ==
  \/ Tick(BackoffInstants)
  \/ CallResolve(1, PlainVideo)
  \/ \E u \in {"", "u1"} : AttemptData(1, u)
  \/ AttemptFails(1)
  \/ RetryTimer(1)
  \/ ResolveReturn(1)

SpecBackoff == Init /\ [][NextBackoff]_vars

(***************************************************************************)
(* The resolve route.                                                       *)
(***************************************************************************)
\* resolveHandler(req, res) runs for the request q.
ResolveHandler(h, q) ==
  /\ handler[h].pc = "idle"
  /\ LET cacheKey == MakeCacheKey(q.videoId, q.sgi)
         g == GetCached(cache, cacheKey, now)
         R0 == [Route EXCEPT !.cache = g.cache,
                             !.handler[h].videoId = q.videoId,
                             !.handler[h].key = cacheKey]
     IN IF q.videoId = NoString /\ q.sgi = NoString
        THEN CommitRoute([Route EXCEPT !.handler[h].pc = "done",
                                       !.handler[h].status = 400])
        ELSE IF g.hit
        THEN CommitRoute([R0 EXCEPT !.handler[h].pc = "done",
                                    !.handler[h].status = 200,
                                    !.handler[h].payload = g.payload,
                                    !.handler[h].fromCache = TRUE])
        ELSE CommitRoute(
               GetInflight(R0, h, cacheKey, q.videoId, q.sgi, now))
  /\ UNCHANGED <<now, cookieJar, cookieMeta, sessionCalls, jarHistory,
                 resolveVars, clientVars, leagueVars, functionVars>>

\* The cool-down timer of a promise fires.
CooldownTimer(ch) ==
  /\ chain[ch].pc = "cooldown"
  /\ now >= chain[ch].wakeAt
  /\ CommitRoute(
       ExecuteResolve([Route EXCEPT !.cooldowns[chain[ch].key] = now],
                      ch, now))
  /\ UNCHANGED <<now, cookieJar, cookieMeta, sessionCalls, jarHistory,
                 resolveVars, clientVars, leagueVars, functionVars>>

\* The upstream answers the request an attempt of the promise is waiting for.
AttemptAnswer(ch, ans) ==
  /\ chain[ch].pc \in {"bff", "cinema", "html"}
  /\ LET R0 == [Route EXCEPT !.chain[ch].answers = Append(@, ans)]
     IN IF chain[ch].pc = "html"
        THEN CommitRoute(AfterHtmlPath(R0, ch, ans, now))
        ELSE CommitRoute(AfterAttempt(R0, ch, AttemptResult(ans, now), now))
  /\ UNCHANGED <<now, cookieJar, cookieMeta, sessionCalls, jarHistory,
                 resolveVars, clientVars, leagueVars, functionVars>>

NextRouteOf(HS, QS, AS, TS) ==
  \/ Tick(TS)
  \/ \E h \in HS, q \in QS : ResolveHandler(h, q)
  \/ \E ch \in HS : CooldownTimer(ch)
  \/ \E ch \in HS, ans \in AS : AttemptAnswer(ch, ans)

\* The instants of the route's model: inside and after the cool-down of a key,
\* and at and after the expiry of a cache entry written with a TTL of 2 s.
RouteInstants == {1001, 3001}

RouteAnswers ==
  {Stream(Url("u1", TRUE, <<>>), 2), Status(404), Failure}

NextRoute ==
  NextRouteOf(Handlers,
              {Request(PlainVideo, NoString), Request(DemoVideo, NoString)},
              RouteAnswers, RouteInstants)

SpecRoute == Init /\ [][NextRoute]_vars

\* The route with every kind of upstream answer, for requests with a videoId
\* and an sgi, with an sgi only and with neither.
AttemptAnswers ==
  {Stream(Url("u1", TRUE, <<>>), 0), Empty, Status(404), Status(500), Failure}

AttemptInstants == {1001}

NextAttempts ==
  NextRouteOf({1, 2},
              {Request(PlainVideo, Sgi1), Request(NoString, Sgi1),
               Request(NoString, NoString)},
              AttemptAnswers, AttemptInstants)

SpecAttempts == Init /\ [][NextAttempts]_vars

\* Both resolvers side by side, each resolving a demo identifier and a plain
\* one: resolveVideoStream and the resolve route.
DemoInstants == {1001, 300001}

NextDemo ==
  \/ Tick(DemoInstants)
  \/ \E v \in VideoIds : CallResolve(1, v)
  \/ \E u \in {"", "u1"} : AttemptData(1, u)
  \/ AttemptFails(1)
  \/ RetryTimer(1)
  \/ ResolveReturn(1)
  \/ \E h \in {1, 2}, q \in {Request(PlainVideo, NoString),
                               Request(DemoVideo, NoString),
                               Request(DemoVideo, Sgi1)} :
        ResolveHandler(h, q)
  \/ \E ch \in {1, 2} : CooldownTimer(ch)
  \/ \E ch \in {1, 2}, ans \in {Stream(Url("u1", TRUE, <<>>), 0), Failure} :
        AttemptAnswer(ch, ans)

SpecDemo == Init /\ [][NextDemo]_vars

(***************************************************************************)
(* fetchMatchesWithVideo.                                                   *)
(***************************************************************************)
\* fetchMatchesWithVideo(leagueId) is called.
CallFetchMatchesWithVideo(c, leagueId) ==
  /\ lcall[c].pc = "idle"
  /\ LET breaker == LEAGUE_BREAKER[leagueId]
         blocked == LeagueBlocks(breaker, now)
     IN lcall' = [lcall EXCEPT ![c] =
          [NoLeagueCall EXCEPT
             !.pc = IF blocked THEN "fallbackBlocked" ELSE "fetch",
             !.leagueId = leagueId,
             !.startedAt = now,
             !.failuresRead = breaker.failures,
             !.upstream = ~blocked]]
  /\ UNCHANGED <<now, cookieJar, cookieMeta, sessionCalls, jarHistory,
                 resolveVars, clientVars, routeVars, functionVars, LEAGUE_BREAKER>>

\* requestHelabet returned the payload.
LeagueFetchSucceeds(c) ==
  /\ lcall[c].pc = "fetch"
  /\ LEAGUE_BREAKER' =
       [LEAGUE_BREAKER EXCEPT ![lcall[c].leagueId] =
          LeagueBreakerAfterSuccess(@)]
  /\ lcall' = [lcall EXCEPT ![c].pc = "done"]
  /\ UNCHANGED <<now, cookieJar, cookieMeta, sessionCalls, jarHistory,
                 resolveVars, clientVars, routeVars, functionVars>>

\* requestHelabet threw (after its attempts, or when the abort timer fired).
LeagueFetchFails(c) ==
  /\ lcall[c].pc = "fetch"
  /\ LEAGUE_BREAKER' =
       [LEAGUE_BREAKER EXCEPT ![lcall[c].leagueId] =
          LeagueBreakerAfterFailure(lcall[c].failuresRead,
                                    lcall[c].startedAt)]
  /\ lcall' = [lcall EXCEPT ![c].pc = "fallbackFailed"]
  /\ UNCHANGED <<now, cookieJar, cookieMeta, sessionCalls, jarHistory,
                 resolveVars, clientVars, routeVars, functionVars>>

\* loadFallbackMatches returned; found: it has matches of the league.
LeagueFallbackLoaded(c, found) ==
  /\ lcall[c].pc \in {"fallbackBlocked", "fallbackFailed"}
  /\ lcall' = [lcall EXCEPT
       ![c].pc = "done",
       ![c].warning =
          IF ~found THEN "upstream_failed"
          ELSE IF lcall[c].pc = "fallbackBlocked" THEN "fallback_cached"
          ELSE "fallback_data"]
  /\ UNCHANGED <<now, cookieJar, cookieMeta, sessionCalls, jarHistory,
                 resolveVars, clientVars, routeVars, functionVars, LEAGUE_BREAKER>>

\* The caller has the result.
LeagueReturn(c) ==
  /\ lcall[c].pc = "done"
  /\ lcall' = [lcall EXCEPT ![c] = NoLeagueCall]
  /\ UNCHANGED <<now, cookieJar, cookieMeta, sessionCalls, jarHistory,
                 resolveVars, clientVars, routeVars, functionVars, LEAGUE_BREAKER>>

\* The instants of the league model: inside the first block, at its end, and
\* at the ends of the second and third blocks.
LeagueInstants == {1001, 2001, 6001, 14001}

NextLeague ==
  \/ Tick(LeagueInstants)
  \/ \E c \in LeagueCallers, l \in LeagueIds : CallFetchMatchesWithVideo(c, l)
  \/ \E c \in LeagueCallers : LeagueFetchSucceeds(c)
  \/ \E c \in LeagueCallers : LeagueFetchFails(c)
  \/ \E c \in LeagueCallers, found \in BOOLEAN : LeagueFallbackLoaded(c, found)
  \/ \E c \in LeagueCallers : LeagueReturn(c)

SpecLeague == Init /\ [][NextLeague]_vars

(***************************************************************************)
(* The pure functions, applied to arguments chosen at the start.            *)
(***************************************************************************)
\* deriveTtlFromUrl(rawUrl) is called.
CallDeriveTtlFromUrl ==
  /\ derived' = [done |-> TRUE, at |-> now,
                 ttl |-> DeriveTtlFromUrl(rawUrl, now)]
  /\ UNCHANGED <<now, cookieJar, cookieMeta, sessionCalls, jarHistory,
                 resolveVars, clientVars, routeVars, leagueVars, rawUrl, items, deduped>>

InitTtl ==
  /\ InitRelay
  /\ rawUrl \in UrlChoices
  /\ items = <<>>
  /\ helabetStreams = <<>>
  /\ rawMatch = NoRawMatch

NextTtl == Tick(TtlInstants) \/ CallDeriveTtlFromUrl

SpecTtl == InitTtl /\ [][NextTtl]_vars

\* dedupe(items) is called.
CallDedupe ==
  /\ deduped' = [done |-> TRUE, out |-> Dedupe(items)]
  /\ UNCHANGED <<now, cookieJar, cookieMeta, sessionCalls, jarHistory,
                 resolveVars, clientVars, routeVars, leagueVars, rawUrl, derived, items>>

InitDedupe ==
  /\ InitRelay
  /\ rawUrl = NoUrl
  /\ items \in ItemLists
  /\ helabetStreams = <<>>
  /\ rawMatch = NoRawMatch

NextDedupe == CallDedupe

SpecDedupe == InitDedupe /\ [][NextDedupe]_vars

(***************************************************************************)
(* fetchAndNormalize and mapStreamMatch, applied to the arguments drawn in  *)
(* the initial state.                                                       *)
(***************************************************************************)
serverVars ==
  <<cookieJar, cookieMeta, sessionCalls, jarHistory, resolveVars, routeVars,
    leagueVars, functionVars>>

CallFetchAndNormalize ==
  /\ aggregation' = FetchAndNormalize(items, helabetStreams)
  /\ UNCHANGED <<now, serverVars, helabetStreams, rawMatch, streamMatch,
                 player, aggregator, marketing>>

InitAggregate ==
  /\ InitRelay
  /\ rawUrl = NoUrl
  /\ items \in ItemLists
  /\ helabetStreams \in HelabetLists
  /\ rawMatch = NoRawMatch

NextAggregate == CallFetchAndNormalize

SpecAggregate == InitAggregate /\ [][NextAggregate]_vars

CallMapStreamMatch ==
  /\ streamMatch' = [done |-> TRUE, out |-> MapStreamMatch(rawMatch)]
  /\ UNCHANGED <<now, serverVars, helabetStreams, aggregation, rawMatch,
                 player, aggregator, marketing>>

InitMap ==
  /\ InitRelay
  /\ rawUrl = NoUrl
  /\ items = <<>>
  /\ helabetStreams = <<>>
  /\ rawMatch \in RawMatches

NextMap == CallMapStreamMatch

SpecMap == InitMap /\ [][NextMap]_vars

(***************************************************************************)
(* The player page: one action per task of the page's event loop.           *)
(***************************************************************************)
playerFrame ==
  <<now, serverVars, helabetStreams, aggregation, rawMatch, streamMatch,
    aggregator, marketing>>

\* The script runs: without videoId and sgi it stops at "Missing stream
\* identifier."; otherwise it ends with resolveStream().
PlayerLoad(hasId, hlsSupported) ==
  /\ player.loaded = "no"
  /\ player' =
       IF ~hasId
       THEN [player EXCEPT !.loaded = "missing",
                           !.status = "Missing stream identifier."]
       ELSE ResolveStream([player EXCEPT !.loaded = "yes",
                                         !.hlsSupported = hlsSupported],
                          FALSE)
  /\ UNCHANGED playerFrame

\* A fetch of /api/resolve ends and resolveStream runs to its end.
PlayerResolved(outcome) ==
  /\ player.loaded = "yes"
  /\ player.inflight > 0
  /\ player.armed < MaxTimers
  /\ player' = AfterResolve([player EXCEPT !.inflight = @ - 1], outcome)
  /\ UNCHANGED playerFrame

\* A refresh or retry timer fires: resolveStream(true).
PlayerTimer(id) ==
  /\ player.loaded = "yes"
  /\ id \in player.timers
  /\ player.sends < MaxSends
  /\ player' = ResolveStream([player EXCEPT !.timers = @ \ {id}], TRUE)
  /\ UNCHANGED playerFrame

\* The attached Hls instance reports an error.
PlayerHlsError(forbidden, fatal) ==
  /\ player.loaded = "yes"
  /\ player.hls
  /\ player.armed < MaxTimers
  /\ player' = AfterHlsError(player, forbidden, fatal)
  /\ UNCHANGED playerFrame

\* beforeunload
PlayerUnload ==
  /\ player.loaded = "yes"
  /\ player' = [Cleanup(player) EXCEPT !.loaded = "gone"]
  /\ UNCHANGED playerFrame

NextPlayer ==
  \/ \E hasId \in BOOLEAN, hlsSupported \in BOOLEAN :
       PlayerLoad(hasId, hlsSupported)
  \/ \E outcome \in ResolveOutcomes : PlayerResolved(outcome)
  \/ \E id \in 1..MaxTimers : PlayerTimer(id)
  \/ \E forbidden \in BOOLEAN, fatal \in BOOLEAN :
       PlayerHlsError(forbidden, fatal)
  \/ PlayerUnload

SpecPlayer == Init /\ [][NextPlayer]_vars

(***************************************************************************)
(* LiveAggregator: getMatches and getDebugSnapshot calls, and the end of a  *)
(* fetchAndNormalize call.                                                  *)
(***************************************************************************)
aggregatorFrame ==
  <<serverVars, helabetStreams, aggregation, rawMatch, streamMatch, player,
    marketing>>

SomeFetchUnused == \E f \in FetchIds : aggregator.fetch[f].state = "unused"

CallGetMatches(c, force) ==
  /\ aggregator.calls[c].awaits = 0
  /\ SomeFetchUnused
  /\ aggregator' = GetMatches(aggregator, c, force, now)
  /\ UNCHANGED <<now, aggregatorFrame>>

\* getDebugSnapshot: a forced getMatches, a plain one when there is no
\* cache, none otherwise.
CallGetDebugSnapshot(c, force) ==
  /\ aggregator.calls[c].awaits = 0
  /\ SomeFetchUnused
  /\ aggregator' =
       IF force THEN GetMatches(aggregator, c, TRUE, now)
       ELSE IF ~aggregator.cache.set
       THEN GetMatches(aggregator, c, FALSE, now)
       ELSE [aggregator EXCEPT !.calls[c].last = "debug"]
  /\ UNCHANGED <<now, aggregatorFrame>>

FetchEnds(f, ok) ==
  /\ aggregator.fetch[f].state = "running"
  /\ aggregator' = FetchSettled(aggregator, f, ok, now)
  /\ UNCHANGED <<now, aggregatorFrame>>

AggregatorInstants == {5001, 20001}

NextAggregator ==
  \/ Tick(AggregatorInstants)
  \/ \E c \in AggCallers, force \in BOOLEAN : CallGetMatches(c, force)
  \/ \E c \in AggCallers, force \in BOOLEAN : CallGetDebugSnapshot(c, force)
  \/ \E f \in FetchIds, ok \in BOOLEAN : FetchEnds(f, ok)

SpecAggregator == Init /\ [][NextAggregator]_vars

(***************************************************************************)
(* MarketingClient requests and the token fetches of MarketingAuth.         *)
(***************************************************************************)
marketingFrame ==
  <<serverVars, helabetStreams, aggregation, rawMatch, streamMatch, player,
    aggregator>>

SomeTokenUnused == \E f \in TokenIds : marketing.tokenFetch[f] = "unused"

\* performRequest: attempt(false).
CallPerformRequest(r) ==
  /\ marketing.req[r].pc = "idle"
  /\ SomeTokenUnused
  /\ marketing' = Attempt([marketing EXCEPT !.req[r] = NoRequest],
                          r, FALSE, now)
  /\ UNCHANGED <<now, marketingFrame>>

\* The token endpoint answers (or the fetch fails).
TokenResponse(f, ok, expiresInSec) ==
  /\ marketing.tokenFetch[f] = "running"
  /\ marketing' = TokenFetched(marketing, f, ok, expiresInSec, now)
  /\ UNCHANGED <<now, marketingFrame>>

\* The data call of a request is answered and its body read.
DataResponse(r, status) ==
  /\ marketing.req[r].pc = "data"
  /\ SomeTokenUnused
  /\ marketing' = AfterDataCall(marketing, r, status, now)
  /\ UNCHANGED <<now, marketingFrame>>

\* The caller has the result or the error.
RequestReturns(r) ==
  /\ marketing.req[r].pc = "done"
  /\ marketing' = [marketing EXCEPT !.req[r].pc = "idle"]
  /\ UNCHANGED <<now, marketingFrame>>

MarketingInstants == {250001}

DataStatuses == {200, 401, 500}

\* expires_in of the token response: absent (300 taken) or 30 s.
ExpiresInChoices == {300, 30}

NextMarketing ==
  \/ Tick(MarketingInstants)
  \/ \E r \in MarketingRequests : CallPerformRequest(r)
  \/ \E f \in TokenIds, ok \in BOOLEAN, e \in ExpiresInChoices :
       TokenResponse(f, ok, e)
  \/ \E r \in MarketingRequests, st \in DataStatuses : DataResponse(r, st)
  \/ \E r \in MarketingRequests : RequestReturns(r)

SpecMarketing == Init /\ [][NextMarketing]_vars

(***************************************************************************)
(* Properties.                                                              *)
(***************************************************************************)

RunsInFlight == {r \in RunIds : runPc[r] # "unused"}

\* Caller c calls warmUp in this step (from helabetRequest, from the retry
\* path of executeRequest, or directly).
WarmUpCalled(c) ==
  /\ pc[c] \in {"idle", "send1"}
  /\ pc'[c] \in AwaitPcs \cup ResumePcs

\* Caller c's call of this step is a direct warmUp(false) that finds a
\* non-empty jar and a successful warm-up less than 10 minutes old.
InsideReuseWindow(c) ==
  /\ pc[c] = "idle"
  /\ call'[c].kind = "warmUp"
  /\ ~call'[c].flag
  /\ JarSize(cookieJar) > 0
  /\ lastWarmup # 0
  /\ now - lastWarmup < 600000

\* C1 (as claimed): at most one warm-up sequence is in flight, and every
\* warmUp call, forced or not, made while one is running starts no warm-up
\* request and awaits the running sequence, so it settles with its outcome.
C1_EveryCallJoinsRunning ==
  /\ [](Cardinality(RunsInFlight) <= 1)
  /\ [][\A c \in Callers :
          (WarmUpCalled(c) /\ RunsInFlight # {}) =>
            /\ runPc' = runPc
            /\ pc'[c] \in AwaitPcs
            /\ call'[c].awaiting \in RunsInFlight]_vars

\* C1 (amended): at most one warm-up sequence is in flight; a warmUp call made
\* while one is running starts no warm-up request; it awaits the running
\* sequence and settles with its outcome, except a non-forced call inside the
\* reuse window, which returns success at once without awaiting it.
C1_AtMostOneWarmUp ==
  /\ [](Cardinality(RunsInFlight) <= 1)
  /\ [][\A c \in Callers :
          (WarmUpCalled(c) /\ RunsInFlight # {}) =>
            /\ runPc' = runPc
            /\ IF InsideReuseWindow(c)
               THEN pc'[c] = "resumeDirect" /\ call'[c].outcome = "ok"
               ELSE /\ pc'[c] \in AwaitPcs
                    /\ call'[c].awaiting \in RunsInFlight]_vars

\* Two callers await the same running warm-up sequence.
C1_Witness ==
  \E c, d \in Callers :
    /\ c # d
    /\ pc[c] \in AwaitPcs /\ pc[d] \in AwaitPcs
    /\ call[c].awaiting = call[d].awaiting
    /\ call[c].awaiting \in RunsInFlight

\* C2: a request is sent upstream at most twice; the second send happens only
\* with retryOnAuth not false and a first status of 401, 403 or 406; the second
\* response is what the call returns, whatever its status.
C2_AtMostTwoSends ==
  \A c \in Callers :
    /\ call[c].sends <= 2
    /\ call[c].sends = 2 =>
         (call[c].flag /\ call[c].status1 \in {401, 403, 406})
    /\ (pc[c] = "done" /\ call[c].status2 # 0) =>
         (call[c].ret = "response" /\ call[c].retStatus = call[c].status2
          /\ call[c].sends = 2)

\* A call returned a second response that is again 401, 403 or 406.
C2_Witness ==
  \E c \in Callers :
    /\ pc[c] = "done"
    /\ call[c].sends = 2
    /\ call[c].status2 \in {401, 403, 406}
    /\ call[c].retStatus = call[c].status2

\* C3: the retried request carries the cookie header of the jar as it is
\* after the forced warm-up.
C3_RetryCarriesRefreshedCookies ==
  \A c \in Callers : pc[c] = "send2" => call[c].retryFresh

C5_NetworkErrorAlwaysRejects ==
  \A c \in Callers :
    (pc[c] = "done" /\ call[c].netErr # 0) => call[c].ret = "error"

\* C5 (amended): a network exception is never retried; raised by the first
\* attempt it rejects the call; raised by the retry it is swallowed and the
\* call returns the first (401/403/406) response.
C5_NetworkErrorNotRetried ==
  \A c \in Callers :
    /\ (pc[c] = "done" /\ call[c].netErr = 1) =>
         (call[c].ret = "error" /\ call[c].sends = 1)
    /\ (pc[c] = "done" /\ call[c].netErr = 2) =>
         /\ call[c].ret = "response"
         /\ call[c].retStatus = call[c].status1
         /\ call[c].status1 \in {401, 403, 406}
         /\ call[c].sends = 2

\* A call ended after its retry raised a network exception.
C5_Witness ==
  \E c \in Callers : pc[c] = "done" /\ call[c].netErr = 2

\* C6: helabetRequest called with an empty jar first awaits a non-forced
\* warm-up; whatever that warm-up's outcome, the request is then sent, and a
\* call only ever rejects with the network exception of its own first attempt.
C6_OpportunisticFailureSwallowed ==
  /\ [][\A c \in Callers :
          /\ (pc[c] = "idle" /\ call'[c].kind = "request"
              /\ JarSize(cookieJar) = 0) =>
               (pc'[c] = "awaitOpp" /\ call'[c].sends = 0)
          /\ (pc[c] = "resumeOpp" /\ pc'[c] # "resumeOpp") =>
               (pc'[c] = "send1" /\ call'[c].sends = 1)]_vars
  /\ [](\A c \in Callers :
          (pc[c] = "done" /\ call[c].kind = "request"
           /\ call[c].ret = "error") => call[c].netErr = 1)

\* A request is in flight after its opportunistic warm-up failed: one warm-up
\* was awaited and no warm-up has ever succeeded.
C6_Witness ==
  \E c \in Callers :
    /\ pc[c] = "send1"
    /\ call[c].emptyAtStart
    /\ call[c].warmups = 1
    /\ lastWarmup = 0

\* C7 (as claimed): a call with a first response 406 and a second response 200
\* returns the 200 after exactly two sends and exactly one warm-up, whatever
\* the jar held at the call.
C7_ExactlyOneWarmUp ==
  \A c \in Callers :
    (pc[c] = "done" /\ call[c].status1 = 406 /\ call[c].status2 = 200) =>
      /\ call[c].ret = "response" /\ call[c].retStatus = 200
      /\ call[c].sends = 2
      /\ call[c].warmups = 1

\* C7 (amended): such a call returns the 200 after exactly two sends and
\* exactly one forced warm-up between them; when the jar was empty at the call,
\* the opportunistic warm-up before the first send is a second warm-up.
C7_OneForcedWarmUpTwoSends ==
  \A c \in Callers :
    (pc[c] = "done" /\ call[c].status1 = 406 /\ call[c].status2 = 200) =>
      /\ call[c].ret = "response" /\ call[c].retStatus = 200
      /\ call[c].sends = 2
      /\ call[c].warmups = IF call[c].emptyAtStart THEN 2 ELSE 1

\* A call that started with an empty jar returned 200 after a 406.
C7_Witness ==
  \E c \in Callers :
    /\ pc[c] = "done" /\ call[c].status1 = 406 /\ call[c].status2 = 200
    /\ call[c].emptyAtStart

\* C8: warmUp(false) with a non-empty jar, less than 10 minutes after the last
\* successful warm-up, issues no upstream request and returns success.
C8_ReuseWindowNoUpstream ==
  /\ [][\A c \in Callers :
          InsideReuseWindow(c) =>
            /\ runPc' = runPc
            /\ warmupPromise' = warmupPromise
            /\ pc'[c] = "resumeDirect"
            /\ call'[c].outcome = "ok"
            /\ call'[c].warmups = 0]_vars
  /\ [](\A c \in Callers :
          (pc[c] = "done" /\ call[c].kind = "warmUp" /\ call[c].warmups = 0)
            => call[c].ret = "ok")

\* A warmUp(false) returned without awaiting any warm-up sequence, one
\* millisecond before the window of the last warm-up closed.
C8_Witness ==
  \E c \in Callers :
    /\ pc[c] = "done" /\ call[c].kind = "warmUp" /\ ~call[c].flag
    /\ call[c].warmups = 0 /\ call[c].ret = "ok"
    /\ now - lastWarmup = 599999

\* C9: warmupPromise is set exactly while a warm-up sequence runs (it is
\* cleared when the sequence settles, with either outcome), so a warmUp(true)
\* made when none runs starts a fresh sequence and awaits it.
C9_PromiseClearedOnSettle ==
  /\ [](RunsInFlight = IF warmupPromise = 0 THEN {} ELSE {warmupPromise})
  /\ [][\A c \in Callers :
          (WarmUpCalled(c) /\ RunsInFlight = {}
           /\ (call'[c].kind = "request" \/ call'[c].flag)
           /\ pc'[c] \in AwaitPcs) =>
            /\ warmupPromise' # 0
            /\ call'[c].awaiting = warmupPromise'
            /\ runPc'[warmupPromise'] = "html"]_vars
  /\ [][\A c \in Callers :
          (pc[c] \in AwaitPcs /\ pc'[c] \in ResumePcs) =>
            warmupPromise' = 0]_vars

\* One caller's warmUp has failed, and a later warmUp(true) of another caller
\* runs a sequence of its own.
C9_Witness ==
  \E c, d \in Callers :
    /\ pc[c] = "done" /\ call[c].kind = "warmUp" /\ call[c].ret = "error"
    /\ pc[d] = "awaitDirect" /\ call[d].flag
    /\ call[d].awaiting = warmupPromise /\ warmupPromise # 0

\* C10: lastWarmup changes only when a sequence ends after its last step, every
\* step having returned 2xx, and it becomes the time of that end; a warm-up
\* that fails leaves lastWarmup as it was.
C10_LastWarmupOnlyOnSuccess ==
  /\ [][lastWarmup' # lastWarmup =>
          /\ lastWarmup' = now
          /\ \E r \in RunIds :
               /\ runPc[r] = "cfgBody" /\ runPc'[r] = "unused"
               /\ ~runNon2xx[r]
               /\ \A c \in Callers :
                    (pc[c] \in AwaitPcs /\ call[c].awaiting = r) =>
                      call'[c].outcome = "ok"]_vars
  /\ [][(\E c \in Callers :
           call[c].outcome # "failed" /\ call'[c].outcome = "failed")
          => lastWarmup' = lastWarmup]_vars

\* A warm-up has failed after an earlier one had succeeded.
C10_Witness ==
  \E c \in Callers :
    /\ pc[c] \in ResumePcs /\ call[c].outcome = "failed"
    /\ lastWarmup # 0

\* Caller c has just been told that a warm-up sequence failed: its direct
\* warmUp call rejected, or the forced warm-up of its request failed.
WarmUpFailureReported(c) ==
  /\ pc[c] = "done"
  /\ \/ call[c].kind = "warmUp" /\ call[c].ret = "error"
     \/ call[c].forcedFailed

\* C11: once a warm-up sequence has failed, the next warmUp(false) starts a
\* new sequence instead of returning at once, also when an earlier warm-up
\* succeeded less than 10 minutes ago and the jar is not empty.
C11_FailedWarmUpIsRetried ==
  \A c \in Callers :
    WarmUpFailureReported(c) => WarmUp(Session, FALSE, now).how = "start"

\* Run r issues the request of a step in this step of the model.
StepIssued(r) == runPc'[r] \in FetchSteps /\ runPc'[r] # runPc[r]

\* C12: the steps of one warm-up sequence are issued one after another, each
\* after the response and body of the one before and with the cookie header of
\* the jar as it is then (its entries that have not expired); the SPA step is issued only while the jar holds no
\* SESSION cookie after step one; a step response that is not 2xx ends the
\* sequence, which issues no further step.
C12_StepsOneAfterAnother ==
  /\ [](/\ Cardinality({r \in RunIds : runPc[r] \in FetchSteps}) <= 1
        /\ \A r \in RunIds : ~runNon2xx[r])
  /\ [][\A r \in RunIds :
          StepIssued(r) =>
            /\ runPc'[r] = "html" => runPc[r] = "unused"
            /\ runPc'[r] = "spa" =>
                 (runPc[r] = "htmlBody" /\ cookieJar["SESSION"] = Absent)
            /\ runPc'[r] = "cfg" =>
                 \/ runPc[r] = "spaBody"
                 \/ runPc[r] = "htmlBody" /\ cookieJar["SESSION"] # Absent
            /\ runHdr'[r] = cookieJar'
            /\ \A n \in CookieNames :
                 /\ cookieJar'[n] # Absent =>
                      (cookieMeta'[n] = 0 \/ cookieMeta'[n] > now)
                 /\ runPc'[r] # "html" =>
                      cookieJar'[n] =
                        IF cookieMeta[n] # 0 /\ cookieMeta[n] <= now
                        THEN Absent ELSE cookieJar[n]]_vars

\* The SPA step is outstanding, sent with a cookie that an earlier response
\* stored, and without a SESSION cookie.
C12_Witness ==
  \E r \in RunIds :
    /\ runPc[r] = "spa"
    /\ runHdr[r]["lng"] = "en"
    /\ runHdr[r]["SESSION"] = Absent

\* C13: whatever responses were applied, the jar (a map keyed by cookie name)
\* holds at most one value per name, and the value it holds for a name is the
\* one the latest Set-Cookie header of that name asked to store.
C13_LatestSetCookieWins ==
  /\ cookieJar \in [CookieNames -> {Absent, "v1", "v2", "en"}]
  /\ \A n \in CookieNames :
       cookieJar[n] # Absent => cookieJar[n] = lastSetCookie[n]

\* The jar holds SESSION=v2 after a header was built that listed SESSION=v1.
C13_Witness ==
  /\ cookieJar["SESSION"] = "v2"
  /\ built.header["SESSION"] = "v1"

\* C14: once the latest Set-Cookie header of a name asked for its removal
\* (Max-Age=0, an empty value, an expiry at or before the time it arrived), the
\* jar holds no entry and no expiry for the name; and every cookie header lists
\* only cookies that have no expiry or one later than the time it is built.
C14_RemovedAtOnceAndNeverSentExpired ==
  /\ [](\A n \in CookieNames :
          lastSetCookie[n] = RemovedMark =>
            (cookieJar[n] = Absent /\ cookieMeta[n] = 0))
  /\ [][built' # built =>
          /\ built'.at = now
          /\ \A n \in CookieNames :
               /\ built'.header[n] # Absent =>
                    /\ built'.header[n] = cookieJar[n]
                    /\ cookieMeta[n] = 0 \/ cookieMeta[n] > now
               /\ (cookieJar[n] # Absent /\ cookieMeta[n] # 0
                     /\ cookieMeta[n] <= now) => cookieJar'[n] = Absent]_vars

\* The SESSION cookie was removed by a Set-Cookie header, and the header built
\* now leaves out the lng cookie, which has expired.
C14_Witness ==
  /\ lastSetCookie["SESSION"] = RemovedMark
  /\ lastSetCookie["lng"] = "en"
  /\ built.at = now
  /\ built.header["lng"] = Absent

\* Caller c calls resolveVideoStream in this step.
ResolveCalled(c) == rpc[c] = "idle" /\ rpc'[c] # "idle"

\* The identifier has a live cache entry / an open breaker, as the state
\* machine of the resolver names them.
IsCached(v) == RESOLVE_CACHE[v] # NoEntry /\ RESOLVE_CACHE[v].expiresAt > now
IsBlocked(v) ==
  RESOLVE_BREAKER[v] # NoBreaker /\ RESOLVE_BREAKER[v].blockedUntil > now

\* C15: a resolve of an identifier (one without the demo prefix) whose cache
\* entry, stored by a successful resolve with TTL T, has not expired makes no
\* upstream call and returns the entry's URL with a ttlHintSec strictly less
\* than T.
C15_CacheHitShorterTtl ==
  [][\A c \in Callers :
       (/\ ResolveCalled(c)
        /\ ~StartsWith(rcall'[c].videoId, DEMO_STREAM_PREFIX)
        /\ IsCached(rcall'[c].videoId)) =>
         /\ rpc'[c] = "done"
         /\ rcall'[c].ret = "result"
         /\ rcall'[c].sends = 0
         /\ rcall'[c].url = RESOLVE_CACHE[rcall'[c].videoId].url
         /\ rcall'[c].ttlHintSec
              < RESOLVE_CACHE[rcall'[c].videoId].ttlHintSec]_vars

\* C16: a resolve answered from the cache returns a ttlHintSec that is not
\* longer than the time left until the entry's expiresAt.
C16_TtlHintWithinRemaining ==
  [][\A c \in Callers :
       (ResolveCalled(c) /\ rcall'[c].fromCache) =>
         rcall'[c].ttlHintSec * 1000
           <= RESOLVE_CACHE[rcall'[c].videoId].expiresAt - now]_vars

\* C17: a resolve of an identifier that is blocked and has no live cache entry
\* fails with resolve_circuit_open and makes no upstream call.
C17_BlockedFailsFast ==
  [][\A c \in Callers :
       (/\ ResolveCalled(c)
        /\ IsBlocked(rcall'[c].videoId)
        /\ ~IsCached(rcall'[c].videoId)) =>
         /\ rpc'[c] = "done"
         /\ rcall'[c].ret = "error"
         /\ rcall'[c].error = "resolve_circuit_open"
         /\ rcall'[c].sends = 0]_vars

\* A call was rejected by the breaker after the first failure.
C17_Witness ==
  \E c \in Callers :
    /\ rpc[c] = "done"
    /\ rcall[c].error = "resolve_circuit_open"
    /\ rcall[c].sends = 0
    /\ RESOLVE_BREAKER[rcall[c].videoId].failures = 1

\* C18: when a resolve reports a failure to its caller, the breaker of the
\* identifier has blockedUntil in the future.
C18_FailureLeavesBreakerOpen ==
  [][\A c \in Callers :
       (rpc[c] # "done" /\ rpc'[c] = "done" /\ rcall'[c].ret = "error") =>
         RESOLVE_BREAKER'[rcall'[c].videoId].blockedUntil > now]_vars

\* C19: a resolve that succeeds upstream leaves no breaker entry for the
\* identifier: no failure count and no block.
C19_SuccessRemovesBreaker ==
  [][\A c \in Callers :
       (ResolveInFlight(c) /\ rpc'[c] = "done" /\ rcall'[c].ret = "result") =>
         /\ RESOLVE_BREAKER'[rcall'[c].videoId].failures = 0
         /\ RESOLVE_BREAKER'[rcall'[c].videoId].blockedUntil = 0]_vars

\* A call that read a breaker entry with failures succeeded upstream.
C19_Witness ==
  \E c \in Callers :
    /\ rpc[c] = "done"
    /\ rcall[c].ret = "result"
    /\ rcall[c].sends >= 1
    /\ rcall[c].failuresRead >= 1
    /\ RESOLVE_BREAKER[rcall[c].videoId] = NoBreaker

\* C20: no identifier is CACHED and BLOCKED at once.
C20_NeverCachedAndBlocked ==
  \A v \in VideoIds : ~(IsCached(v) /\ IsBlocked(v))

\* C21: while one resolve of a key is in flight, no second upstream resolve
\* runs for the same key: concurrent calls for one identifier are coalesced
\* into a single upstream chain.
C21_SameKeyCoalesced ==
  \A c, d \in Callers :
    (c # d /\ ResolveInFlight(c) /\ ResolveInFlight(d))
      => rcall[c].videoId # rcall[d].videoId

\* The promise of handler ch settles in this step.
ChainSettles(ch) ==
  ChainRunning(ch) /\ chain'[ch].pc \in {"resolved", "rejected"}

\* A resolve of this key failed before.
FailedBefore(cacheKey) ==
  \E ch \in Handlers : chain[ch].pc = "rejected" /\ chain[ch].key = cacheKey

\* C22: the in-flight entry of a key is removed in the step in which the
\* key's resolve settles, with a result or with an error, so the in-flight map
\* holds a key only while that key's promise is pending; and a request that
\* arrives for a key after a failed resolve of it (nothing cached, nothing in
\* flight) starts a new resolve of its own.
C22_InflightRemovedOnSettle ==
  /\ [](\A k \in RouteKeys :
          inflight[k] # 0 =>
            ChainRunning(inflight[k]) /\ chain[inflight[k]].key = k)
  /\ [][/\ \A ch \in Handlers :
              ChainSettles(ch) => inflight'[chain[ch].key] = 0
        /\ \A h \in Handlers :
              (/\ handler[h].pc = "idle"
               /\ handler'[h].pc # "idle"
               /\ FailedBefore(handler'[h].key)
               /\ inflight[handler'[h].key] = 0
               /\ ~handler'[h].fromCache)
                => /\ chain[h].pc = "none"
                   /\ chain'[h].pc \in {"cooldown", "bff", "html"}
                   /\ chain'[h].key = handler'[h].key
                   /\ inflight'[handler'[h].key] = h]_vars

\* A resolve of a key failed, its entry is gone, and a later request runs a
\* new resolve of the same key.
C22_Witness ==
  \E a, b \in Handlers :
    /\ chain[a].pc = "rejected"
    /\ chain[b].pc = "bff"
    /\ chain[b].key = chain[a].key
    /\ inflight[chain[a].key] = b

\* The call of c records a failure of its identifier in this step.
FailureRecorded(c) ==
  /\ ResolveInFlight(c)
  /\ rpc'[c] = "done"
  /\ rcall'[c].ret = "error"

\* C23: the failure that brings an identifier's count to n sets blockedUntil
\* to the call's `now` plus min(30000, 1000 * 2^min(n, 5)) ms: 2 s for the
\* first failure, twice the length before for each further one, and 30 s at
\* most.
C23_BlockLengthDoublesToCeiling ==
  [][\A c \in Resolvers :
       FailureRecorded(c) =>
         LET v == rcall[c].videoId
             n == RESOLVE_BREAKER'[v].failures
             len == RESOLVE_BREAKER'[v].blockedUntil - rcall[c].startedAt
         IN /\ n >= 1
            /\ len = (IF n >= 5 THEN 30000 ELSE 1000 * 2 ^ n)
            /\ len <= 30000
            /\ n = 1 => len = 2000
            /\ n \in 2..4 => len = 2 * (1000 * 2 ^ (n - 1))
            /\ n >= 5 => len = 30000]_vars

\* The sixth failure in a row of an identifier has been recorded.
C23_Witness ==
  /\ RESOLVE_BREAKER[PlainVideo].failures = 6
  /\ rpc[1] = "done" /\ rcall[1].ret = "error"
  /\ RESOLVE_BREAKER[PlainVideo].blockedUntil = now + 30000

\* The identifier begins with the five characters d, e, m, o, -.
IsDemo(videoId) ==
  /\ Len(videoId) >= 5
  /\ \A i \in 1..5 : videoId[i] = <<"d", "e", "m", "o", "-">>[i]

\* C24: a resolve of an identifier that starts with "demo-" never waits for
\* the upstream and never sends it a request, and it ends with the fixed demo
\* URL: in resolveVideoStream, and in the resolve route whether the request is
\* answered from the route's cache or by executeResolve.
C24_DemoNeverGoesUpstream ==
  /\ \A c \in Resolvers :
       IsDemo(rcall[c].videoId) =>
         /\ ~ResolveInFlight(c)
         /\ rcall[c].sends = 0
         /\ rpc[c] = "done" =>
              rcall[c].ret = "result" /\ rcall[c].url = DEMO_STREAM_URL
  /\ \A h \in Handlers :
       /\ IsDemo(chain[h].videoId) =>
            chain[h].pc \notin {"bff", "cinema", "html"}
              /\ chain[h].answers = <<>>
       /\ (IsDemo(handler[h].videoId) /\ handler[h].pc = "done") =>
            handler[h].status = 200
              /\ handler[h].payload.url = DEMO_STREAM_URL

\* Demo identifiers were resolved by resolveVideoStream, after a resolve of a
\* plain identifier had failed, and by the route: once by executeResolve and
\* once from the route's cache.
C24_Witness ==
  /\ rpc[1] = "done" /\ IsDemo(rcall[1].videoId)
  /\ rcall[1].url = DEMO_STREAM_URL
  /\ RESOLVE_BREAKER[PlainVideo] # NoBreaker
  /\ \E a, b \in Handlers :
       /\ handler[a].pc = "done" /\ IsDemo(handler[a].videoId)
       /\ handler[a].fromCache
       /\ handler[b].pc = "done" /\ IsDemo(handler[b].videoId)
       /\ ~handler[b].fromCache

\* parseInt reads an integer from the `t` parameter of the URL (an absolute
\* URL with a `t` parameter that begins, after white space and a sign, with
\* a digit).
TokenRead(u) == u.href # "" /\ u.absolute /\ ~ParseInt(u.t).nan

\* C25: deriveTtlFromUrl returns null for a URL from which no integer `t`
\* token can be read, and otherwise max(30, floor((t - now - 30000) / 1000)):
\* at least 30, and between 30 and 300 for a token 5 minutes, or 5 minutes
\* and the 30 s margin, after now.
C25_TtlFromToken ==
  derived.done =>
    LET token == ParseInt(rawUrl.t).value
        at == derived.at
    IN /\ ~TokenRead(rawUrl) => derived.ttl.null
       /\ TokenRead(rawUrl) =>
            /\ ~derived.ttl.null
            /\ derived.ttl.value =
                 (IF (token - at - 30000) \div 1000 > 30
                  THEN (token - at - 30000) \div 1000 ELSE 30)
            /\ derived.ttl.value >= 30
            /\ token - at \in {300000, 330000} =>
                 derived.ttl.value \in 30..300

\* deriveTtlFromUrl returned 270 for a token 5 minutes after now.
C25_Witness ==
  /\ derived.done
  /\ TokenRead(rawUrl)
  /\ ParseInt(rawUrl.t).value = derived.at + 300000
  /\ derived.ttl = Some(270)

\* C26: every entry storeCache writes expires strictly before the time of the
\* write plus the TTL it is written with, whatever TTL the resolver produced.
C26_ExpiryBeforeTtlEnd ==
  [][\A k \in RouteKeys :
       (cache'[k] # cache[k] /\ cache'[k] # NoCacheEntry) =>
         cache'[k].expiresAt < now + cache'[k].value.ttlHintSec * 1000]_vars

\* The attempt returned an HTTP status from 400 to 499 / of 500 or more.
Returned4xx(a) == a.kind = "http" /\ a.status >= 400 /\ a.status < 500
Returned5xx(a) == a.kind = "http" /\ a.status >= 500

\* C27: a failed resolve is answered not_found (404) only when every attempt
\* made for it returned an HTTP 4xx status, upstream_error (502) when some
\* attempt returned a 5xx status, and resolve_failed (503) in every other
\* case.
C27_FailureClassified ==
  \A ch \in Handlers :
    chain[ch].pc = "rejected" =>
      LET attempts == chain[ch].attempts
          all4xx == \A i \in 1..Len(attempts) : Returned4xx(attempts[i])
          some5xx == \E i \in 1..Len(attempts) : Returned5xx(attempts[i])
          statusCode == chain[ch].error.statusCode
      IN /\ statusCode = 404 => all4xx
         /\ some5xx => statusCode = 502
         /\ (~all4xx /\ ~some5xx) => statusCode = 503
         /\ handler[ch].pc = "done" => handler[ch].status = statusCode

\* C28: when fetchMatchesWithVideo gets the upstream's payload for a league,
\* the league's breaker entry is gone afterwards: no failure count and no
\* block remain, so that a later failure is counted as the first.
C28_SuccessClearsLeagueBreaker ==
  [][\A c \in LeagueCallers :
       (lcall[c].pc = "fetch" /\ lcall'[c].pc = "done") =>
         LEAGUE_BREAKER'[lcall[c].leagueId] = NoBreaker]_vars

\* The records of a list that have the key k.
WithKey(list, k) == {i \in 1..Len(list) : KeyOf(list[i]) = k}

\* C29: when the list holds exactly two records of a key, one with a stream
\* and one without, in either order, dedupe returns exactly one record of
\* that key, with hasStream = true and the videoId and sgi of the record that
\* has the stream.
C29_StreamRecordSurvives ==
  deduped.done =>
    \A i, j \in 1..Len(items) :
      (/\ i # j
       /\ KeyOf(items[i]) = KeyOf(items[j])
       /\ WithKey(items, KeyOf(items[i])) = {i, j}
       /\ items[i].hasStream
       /\ ~items[j].hasStream)
        => LET kept == WithKey(deduped.out, KeyOf(items[i]))
           IN /\ Cardinality(kept) = 1
              /\ \A n \in kept :
                   /\ deduped.out[n].hasStream
                   /\ deduped.out[n].videoId = items[i].videoId
                   /\ deduped.out[n].sgi = items[i].sgi

\* dedupe was given a record without a stream and with the higher score
\* first, and the record of the same key with the stream second.
C29_Witness ==
  /\ deduped.done
  /\ Len(items) = 2
  /\ KeyOf(items[1]) = KeyOf(items[2])
  /\ ~items[1].hasStream /\ items[2].hasStream
  /\ Score(items[1]) > Score(items[2])
  /\ Len(deduped.out) = 1
  /\ deduped.out[1].videoId = items[2].videoId
  /\ deduped.out[1].videoId # ""

\* The ids of the records a result of dedupe holds, by key.
KeptIds(out) == {<<KeyOf(out[n]), out[n].id>> : n \in 1..Len(out)}

\* C30: the record dedupe keeps for each matchKey is the same for every
\* permutation of the input list.
C30_OrderIndependent ==
  deduped.done =>
    \A p \in Permutations(1..Len(items)) :
      KeptIds(Dedupe([n \in 1..Len(items) |-> items[p[n]]]))
        = KeptIds(deduped.out)

\* C34: every failed resolve raises the failure count of its identifier by
\* exactly one over the count the breaker held just before the failure was
\* recorded (0 when it had no entry), also when resolves overlap: no
\* increment is lost.
C34_EveryFailureCounted ==
  [][\A c \in Resolvers :
       FailureRecorded(c) =>
         RESOLVE_BREAKER'[rcall[c].videoId].failures
           = RESOLVE_BREAKER[rcall[c].videoId].failures + 1]_vars

\* C35: between two successes blockedUntil of an identifier never decreases:
\* every recorded failure leaves it greater than or equal to its value before,
\* under any interleaving of overlapping resolve calls.
C35_BlockedUntilNeverDecreases ==
  [][\A c \in Resolvers :
       FailureRecorded(c) =>
         RESOLVE_BREAKER'[rcall[c].videoId].blockedUntil
           >= RESOLVE_BREAKER[rcall[c].videoId].blockedUntil]_vars

\* C36: a resolve of a "demo-" identifier bypasses the cache and the breaker:
\* the step in which it completes, through resolveVideoStream or through the
\* resolve route, leaves the resolve cache and the breaker map as they were
\* and reports a TTL hint of 300 s, on the first call and on every repeat.
C36_DemoLeavesMapsAlone ==
  [][/\ \A c \in Resolvers :
          (rpc[c] # "done" /\ rpc'[c] = "done" /\ IsDemo(rcall'[c].videoId))
            => /\ RESOLVE_CACHE' = RESOLVE_CACHE
               /\ RESOLVE_BREAKER' = RESOLVE_BREAKER
               /\ rcall'[c].ttlHintSec = DemoTtlSec
     /\ \A h \in Handlers :
          (handler[h].pc # "done" /\ handler'[h].pc = "done"
             /\ IsDemo(handler'[h].videoId))
            => /\ cache' = cache
               /\ handler'[h].payload.ttlHintSec = DemoTtlSec]_vars

\* The scheduler of the runtime: a continuation that is ready runs, and time
\* passes. Nothing obliges the upstream to answer: attemptFetch and
\* performWarmUpStep call fetch with no signal and no timer.
SessionSteps ==
  \E c \in {1} :
    ResumeDirect(c) \/ ResumeOpp(c) \/ ResumeForced(c) \/ Return(c)

SpecHung ==
  Init /\ [][Next]_vars /\ WF_vars(SessionSteps) /\ WF_vars(Tick(Instants))

\* C33: every upstream call of the session is bounded by a total timeout: a
\* warm-up operation in flight and a helabetRequest()/warmUp() call in
\* progress eventually settle, also when the upstream never answers.
C33_UpstreamCallSettles ==
  /\ (warmupPromise # 0) ~> (warmupPromise = 0)
  /\ \A c \in {1} : (pc[c] # "idle") ~> (pc[c] = "idle")

\* hasStream of a record is what its identifiers say.
FlagMatchesIds(entry) ==
  entry.hasStream = (entry.videoId # "" \/ entry.sgi # "")

\* C31: every record fetchAndNormalize returns, in `all` and in `streams`,
\* after dedupe and the Helabet merge, has hasStream = (videoId is non-empty
\* or sgi is non-empty).
C31_HasStreamIsRecomputed ==
  aggregation.done =>
    /\ \A i \in 1..Len(aggregation.all) : FlagMatchesIds(aggregation.all[i])
    /\ \A i \in 1..Len(aggregation.streams) :
         FlagMatchesIds(aggregation.streams[i])

\* A marketing record that had no stream was returned in `all` and in
\* `streams` with the video id of the Helabet match of its key, beside a
\* record that Helabet added.
C31_Witness ==
  /\ aggregation.done
  /\ \E i \in 1..Len(aggregation.all) :
       /\ aggregation.all[i].origin = "marketing"
       /\ aggregation.all[i].videoId = "v9"
       /\ aggregation.all[i].id \in {"b", "c"}
  /\ \E i \in 1..Len(aggregation.streams) :
       aggregation.streams[i].origin = "helabet"

\* C32: mapStreamMatch returns null for every raw match whose video-id field
\* (VI, or VideoId when VI is absent) is absent, empty or white space only,
\* and every result that is not null has a non-empty videoId without white
\* space at its ends.
C32_VideoIdRequired ==
  streamMatch.done =>
    LET field == IF rawMatch.VI.type \in {"undefined", "null"}
                 THEN rawMatch.VideoId ELSE rawMatch.VI
        blank == \/ field.type \in {"undefined", "null"}
                 \/ /\ field.type = "string"
                    /\ \A i \in 1..Len(field.chars) :
                         field.chars[i] \in WhiteSpace
    IN /\ blank => streamMatch.out.null
       /\ ~streamMatch.out.null =>
            /\ streamMatch.out.videoId # <<>>
            /\ Head(streamMatch.out.videoId) \notin WhiteSpace
            /\ streamMatch.out.videoId[Len(streamMatch.out.videoId)]
                 \notin WhiteSpace

\* A match whose VI is white space only was mapped to null, with a usable
\* VideoId beside it.
C32_Witness ==
  /\ streamMatch.done
  /\ rawMatch.VI = Str(<<"\t", " ">>)
  /\ rawMatch.VideoId = Str(<<"v", "1">>)
  /\ streamMatch.out.null

\* C37: in the player page the geo-blocked state is absorbing: once
\* geoBlocked is set the page sends no /api/resolve, applies no stream
\* source and keeps the status "Video not available in your region.", also
\* when a resolve request was in flight as the block was detected.
C37_GeoBlockedIsAbsorbing ==
  [][player.geoBlocked =>
       /\ player'.geoBlocked
       /\ player'.sends = player.sends
       /\ player'.applied = player.applied
       /\ player'.status = GEO_BLOCKED_MESSAGE]_vars

\* C38: in the player page at most one refresh/retry timer is pending at
\* any time, under any interleaving of resolve completions and Hls errors.
C38_OneTimerPending == Cardinality(player.timers) <= 1

\* C39: a getMatches call without force never starts a fetchAndNormalize
\* while an earlier one, forced or not, is still running.
C39_NoFetchBesideRunning ==
  [][\A f \in FetchIds :
       (/\ aggregator.fetch[f].state = "unused"
        /\ aggregator'.fetch[f].state = "running"
        /\ ~aggregator'.fetch[f].forced)
         => \A g \in FetchIds : aggregator.fetch[g].state # "running"]_vars

\* The token fetches of MarketingAuth that are running.
TokenFetchesRunning ==
  {f \in TokenIds : marketing.tokenFetch[f] = "running"}

\* C40: a request makes at most two data calls; the second one is made only
\* after a 401 on the first, after invalidate(), and with a token fetched
\* after the first one; a request that ended after a 401 and a new token
\* made exactly two; a 401 on the retry is returned as an error; and at
\* most one token fetch is in flight, whatever getBearer() calls overlap.
C40_OneRetryOneTokenFetch ==
  /\ \A r \in MarketingRequests :
       LET q == marketing.req[r]
       IN /\ q.dataCalls <= 2
          /\ q.dataCalls = 2 =>
               /\ q.status1 = 401
               /\ q.invalidated
               /\ q.token > q.token1
          /\ (q.pc = "done" /\ q.status1 = 401 /\ q.token # q.token1) =>
               q.dataCalls = 2
          /\ (q.pc = "done" /\ q.status2 = 401) => q.ret = "error"
  /\ Cardinality(TokenFetchesRunning) <= 1
  /\ marketing.inflight # 0 => TokenFetchesRunning = {marketing.inflight}

\* Two requests shared one token fetch; one of them got 401 twice and
\* returned the error after its second data call.
C40_Witness ==
  /\ marketing.req[1].token1 = marketing.req[2].token1
  /\ marketing.req[1].token1 # 0
  /\ marketing.req[1].pc = "done"
  /\ marketing.req[1].dataCalls = 2
  /\ marketing.req[1].status2 = 401
  /\ marketing.req[1].ret = "error"
====
